---- MODULE Spec2Model ----
(***************************************************************************)
(* The file cache service (com.palm.filecache): the request handlers of    *)
(* CategoryHandler.cpp and the start-up of FileCacheServiceApp.cpp, over   *)
(* the cache engine (CFileCacheSet and the path helpers of CacheBase).     *)
(* The engine's sources are not part of src/; its operations follow        *)
(* spec.md sections 3 and 4 and are marked so in MODEL_MAP.json.           *)
(*                                                                         *)
(* Byte quantities are in model units; time is in ticks of the clock.      *)
(***************************************************************************)
EXTENDS Integers, Sequences, FiniteSets, TLC

VARIABLES
  types,          \* CFileCacheSet: typeName -> parameters and usedBytes
  objects,        \* CFileCacheSet: object id -> CachedObject (with its type)
  nextId,         \* CFileCacheSet: the id counter
  disk,           \* the tree under the cache root: relative path -> stat
  typeDirs,       \* the type directories under the cache root
  now,            \* the clock (monotonic seconds)
  m_subscribers,  \* CategoryHandler::m_subscribers: the Subscription handles
  issued,         \* every object id a successful InsertCacheObject handed out
  cleanerTimer,   \* whether the 120 s timer of CleanerCallback is armed
  destDirs,       \* the directories outside the cache: path -> its file names
  copies,         \* the copies CAsyncCopier has started and not yet finished
  timerRuns,      \* per glib timer, the parity of the number of its firings
  running         \* whether the main loop of the service runs (no shutdown yet)

vars == <<types, objects, nextId, disk, typeDirs, now, m_subscribers, issued,
          cleanerTimer, destDirs, copies, timerRuns, running>>

----------------------------------------------------------------------------
(* Bounds of the model *)

MaxObjId == 2

MaxTime == 2

MaxSubscribers == 2

MaxCopies == 1

ScenarioInserts == 5

----------------------------------------------------------------------------
(* Path codec (spec.md 4.1) *)

BaseDirName == "/var/file-cache"

OtherDirName == "/tmp"

IdHexWidth == 16

ShardWidth == 2

ExpiredAdjustment == 1000

RECURSIVE ToHex(_, _)
ToHex(n, width) ==
  IF width = 0 THEN <<>>
  ELSE Append(ToHex(n \div 16, width - 1), n % 16)

RECURSIVE FromHex(_, _)
FromHex(digits, acc) ==
  IF digits = <<>> THEN acc
  ELSE FromHex(Tail(digits), acc * 16 + Head(digits))

IsHex(digits) == \A i \in DOMAIN digits : digits[i] \in 0..15

\* <root>/<typeName>/<shard>/<tail><name>
BuildPathname(objId, dirBase, typeName, fileName) ==
  LET hex == ToHex(objId, IdHexWidth)
  IN  [root  |-> dirBase,
       type  |-> typeName,
       shard |-> SubSeq(hex, 1, ShardWidth),
       tail  |-> SubSeq(hex, ShardWidth + 1, IdHexWidth),
       name  |-> fileName]

GetObjectIdFromPath(path) ==
  IF /\ Len(path.shard) = ShardWidth
     /\ Len(path.tail) = IdHexWidth - ShardWidth
     /\ IsHex(path.shard)
     /\ IsHex(path.tail)
  THEN FromHex(path.shard \o path.tail, 0)
  ELSE 0

GetTypeNameFromPath(dirBase, path) ==
  IF path.root = dirBase THEN path.type ELSE ""

\* The path of an entry relative to the cache root.
RelPath(path) == [type |-> path.type, shard |-> path.shard,
                  tail |-> path.tail, name |-> path.name]

ObjectRelPath(typeName, objId, fileName) ==
  RelPath(BuildPathname(objId, BaseDirName, typeName, fileName))

NoPath == [root |-> "", type |-> "", shard |-> <<>>, tail |-> <<>>, name |-> ""]

----------------------------------------------------------------------------
(* Cache engine (spec.md 3, 4.2 - 4.5).  An engine state is the record     *)
(* [types, objects, nextId, disk, typeDirs]; every operation returns the   *)
(* engine state it leaves and its result.                                  *)

Engine == [types |-> types, objects |-> objects, nextId |-> nextId,
           disk |-> disk, typeDirs |-> typeDirs]

Drop(f, S) == [x \in DOMAIN f \ S |-> f[x]]

Put(f, k, v) == [x \in DOMAIN f \cup {k} |-> IF x = k THEN v ELSE f[x]]

RECURSIVE SumSize(_, _)
SumSize(objs, S) ==
  IF S = {} THEN 0
  ELSE LET x == CHOOSE y \in S : TRUE
       IN  objs[x].size + SumSize(objs, S \ {x})

ObjectsOfType(objs, typeName) == {id \in DOMAIN objs : objs[id].type = typeName}

\* spec.md 4.3
IsEvictable(o) == o.subscriberCount = 0 /\ ~o.writeOpen

\* spec.md 4.4, eviction ordering, rule 2
AgeWeight(age, lifetime) ==
  IF lifetime # 0 /\ age > lifetime THEN 0 - ExpiredAdjustment ELSE 0

Score(o, t) == o.cost + AgeWeight(t - o.lastAccessAt, o.lifetime)

\* The ordering without rule 2: least recently used first, whatever the score
EvictBefore_LruOnly(objs, a, b, t) ==
  LET oa == objs[a]
      ob == objs[b]
  IN  IF oa.pendingExpire # ob.pendingExpire THEN oa.pendingExpire
      ELSE IF oa.lastAccessAt # ob.lastAccessAt THEN oa.lastAccessAt < ob.lastAccessAt
      ELSE a < b

\* spec.md 4.4, eviction ordering: a is taken before b
EvictBefore(objs, a, b, t) ==
  LET oa == objs[a]
      ob == objs[b]
  IN  IF oa.pendingExpire # ob.pendingExpire THEN oa.pendingExpire
      ELSE IF Score(oa, t) # Score(ob, t) THEN Score(oa, t) < Score(ob, t)
      ELSE IF oa.lastAccessAt # ob.lastAccessAt THEN oa.lastAccessAt < ob.lastAccessAt
      ELSE a < b

RECURSIVE SelectVictims(_, _, _, _)
SelectVictims(objs, cands, need, t) ==
  IF need <= 0 \/ cands = {} THEN {}
  ELSE LET v == CHOOSE x \in cands :
                  \A y \in cands \ {x} : EvictBefore(objs, x, y, t)
       IN  {v} \cup SelectVictims(objs, cands \ {v}, need - objs[v].size, t)

\* spec.md 4.4 Reserve: the admission decision and the objects to evict for it.
\* `held` are the objects the calling operation works on.
Reserve(c, typeName, size, held, t) ==
  LET ty    == c.types[typeName]
      cands == {id \in ObjectsOfType(c.objects, typeName) \ held :
                  IsEvictable(c.objects[id])}
      need  == size - (ty.hiWatermark - ty.usedBytes)
  IN  IF ty.usedBytes + size <= ty.hiWatermark
        THEN [ok |-> TRUE, victims |-> {}]
      ELSE IF SumSize(c.objects, cands) < need
        THEN [ok |-> FALSE, victims |-> {}]
      ELSE [ok |-> TRUE, victims |-> SelectVictims(c.objects, cands, need, t)]

ObjectPath(o, id) == ObjectRelPath(o.type, id, o.filename)

\* spec.md 4.4 Remove, for a set of objects of one type
RemoveObjects(c, typeName, ids) ==
  [c EXCEPT
     !.objects = Drop(c.objects, ids),
     !.types[typeName].usedBytes = @ - SumSize(c.objects, ids),
     !.disk = Drop(c.disk, {ObjectPath(c.objects[id], id) : id \in ids})]

BlockSize == 2

\* CacheBase GetFilesystemFileSize: the bytes a file of n bytes occupies
GetFilesystemFileSize(n) == ((n + BlockSize - 1) \div BlockSize) * BlockSize

ZeroParams == [loWatermark |-> 0, hiWatermark |-> 0, size |-> 0, cost |-> 0,
               lifetime |-> 0]

TypeExists(c, typeName) == typeName \in DOMAIN c.types

\* spec.md 4.5 DescribeType
DescribeType(c, typeName) ==
  IF TypeExists(c, typeName)
  THEN LET ty == c.types[typeName]
       IN  [loWatermark |-> ty.loWatermark, hiWatermark |-> ty.hiWatermark,
            size |-> ty.size, cost |-> ty.cost, lifetime |-> ty.lifetime]
  ELSE ZeroParams

isTypeDirType(c, typeName) == TypeExists(c, typeName) /\ c.types[typeName].dirType

\* spec.md 4.5: the reverse index id -> typeName
GetTypeForObjectId(c, objId) ==
  IF objId \in DOMAIN c.objects THEN c.objects[objId].type ELSE ""

CachedObjectSize(c, objId) ==
  IF objId \in DOMAIN c.objects THEN c.objects[objId].size ELSE 0 - 1

CachedObjectFilename(c, objId) ==
  IF objId \in DOMAIN c.objects THEN c.objects[objId].filename ELSE ""

\* spec.md 4.5 GetCacheStatus: the total size of all types
GetCacheSize(c) ==
  SumSize(c.objects, DOMAIN c.objects)

FilesystemBytes == 16

\* the free space of the filesystem holding the cache: what its files leave
AvailSpace(c) ==
  LET RECURSIVE Occupied(_)
      Occupied(paths) ==
        IF paths = {} THEN 0
        ELSE LET p == CHOOSE x \in paths : TRUE
             IN  GetFilesystemFileSize(c.disk[p].bytes) + Occupied(paths \ {p})
  IN  FilesystemBytes - Occupied(DOMAIN c.disk)

\* spec.md 4.5 GetCacheStatus: (numTypes, totalSize, numObjs, availSpace)
CFileCacheSet_GetCacheStatus(c) ==
  [numTypes   |-> Cardinality(DOMAIN c.types),
   size       |-> GetCacheSize(c),
   numObjs    |-> Cardinality(DOMAIN c.objects),
   availSpace |-> AvailSpace(c)]

\* spec.md 4.5 DefineType; diskOk: the type directory could be created
CFileCacheSet_DefineType(c, typeName, params, dirType, diskOk) ==
  IF TypeExists(c, typeName) \/ ~diskOk
  THEN [cache |-> c, ok |-> FALSE]
  ELSE [cache |-> [c EXCEPT
                     !.types = Put(@, typeName,
                                   [loWatermark |-> params.loWatermark,
                                    hiWatermark |-> params.hiWatermark,
                                    size |-> params.size,
                                    cost |-> params.cost,
                                    lifetime |-> params.lifetime,
                                    dirType |-> dirType,
                                    usedBytes |-> 0]),
                     !.typeDirs = @ \cup {typeName}],
        ok |-> TRUE]

\* spec.md 4.5 ChangeType: a partial update, a field of 0 is an omitted field
CFileCacheSet_ChangeType(c, typeName, params) ==
  IF ~TypeExists(c, typeName) THEN [cache |-> c, ok |-> FALSE]
  ELSE LET ty == c.types[typeName]
           Pick(new, cur) == IF new # 0 THEN new ELSE cur
           lo == Pick(params.loWatermark, ty.loWatermark)
       IN  IF params.hiWatermark # 0 /\ params.hiWatermark <= lo
           THEN [cache |-> c, ok |-> FALSE]
           ELSE [cache |-> [c EXCEPT !.types[typeName] =
                              [ty EXCEPT
                                 !.loWatermark = lo,
                                 !.hiWatermark = Pick(params.hiWatermark, @),
                                 !.size = Pick(params.size, @),
                                 !.cost = Pick(params.cost, @),
                                 !.lifetime = Pick(params.lifetime, @)]],
                 ok |-> TRUE]

\* spec.md 4.5 DeleteType: the freed bytes, or -1
CFileCacheSet_DeleteType(c, typeName) ==
  IF ~TypeExists(c, typeName) THEN [cache |-> c, freed |-> 0 - 1]
  ELSE LET ids == ObjectsOfType(c.objects, typeName)
       IN  IF \E id \in ids : ~IsEvictable(c.objects[id])
           THEN [cache |-> c, freed |-> 0 - 1]
           ELSE LET c1 == RemoveObjects(c, typeName, ids)
                IN  [cache |-> [c1 EXCEPT !.types = Drop(@, {typeName}),
                                          !.typeDirs = @ \ {typeName}],
                     freed |-> SumSize(c.objects, ids)]

NewObject(typeName, fileName, size, cost, lifetime, t) ==
  [type |-> typeName, filename |-> fileName, size |-> size, cost |-> cost,
   lifetime |-> lifetime, lastAccessAt |-> t,
   writeOpen |-> TRUE, subscriberCount |-> 0, pendingExpire |-> FALSE]

\* spec.md 4.4 Insert / 4.5: the new id, or 0; diskOk: the path could be created
CFileCacheSet_InsertCacheObject(c, typeName, fileName, size, cost, lifetime, diskOk, t) ==
  IF ~TypeExists(c, typeName) THEN [cache |-> c, id |-> 0]
  ELSE LET adm == Reserve(c, typeName, size, {}, t)
       IN  IF ~adm.ok THEN [cache |-> c, id |-> 0]
           ELSE LET c1 == RemoveObjects(c, typeName, adm.victims)
                    id == c1.nextId
                    c2 == [c1 EXCEPT !.nextId = @ + 1]
                IN  IF ~diskOk THEN [cache |-> c2, id |-> 0]
                    ELSE [cache |-> [c2 EXCEPT
                            !.objects = Put(@, id, NewObject(typeName, fileName,
                                                   size, cost, lifetime, t)),
                            !.types[typeName].usedBytes = @ + size,
                            !.disk = Put(@, ObjectRelPath(typeName, id, fileName),
                                         [bytes |-> 0, mtime |-> t])],
                          id |-> id]

\* spec.md 4.4 Resize: the size the object has afterwards, or -1
CFileCacheSet_Resize(c, objId, newSize, t) ==
  IF objId \notin DOMAIN c.objects THEN [cache |-> c, size |-> 0 - 1]
  ELSE LET o   == c.objects[objId]
           adm == Reserve(c, o.type, newSize - o.size, {objId}, t)
       IN  IF newSize <= o.size
           THEN [cache |-> [c EXCEPT !.objects[objId].size = newSize,
                                     !.types[o.type].usedBytes = @ - (o.size - newSize)],
                 size |-> newSize]
           ELSE IF ~adm.ok THEN [cache |-> c, size |-> o.size]
           ELSE LET c1 == RemoveObjects(c, o.type, adm.victims)
                IN  [cache |-> [c1 EXCEPT !.objects[objId].size = newSize,
                                          !.types[o.type].usedBytes = @ + (newSize - o.size)],
                     size |-> newSize]

\* spec.md 4.4 Expire: TRUE when the object was removed, FALSE when deferred
CFileCacheSet_ExpireCacheObject(c, objId) ==
  IF objId \notin DOMAIN c.objects THEN [cache |-> c, expired |-> FALSE]
  ELSE LET o == c.objects[objId]
       IN  IF IsEvictable(o)
           THEN [cache |-> RemoveObjects(c, o.type, {objId}), expired |-> TRUE]
           ELSE [cache |-> [c EXCEPT !.objects[objId].pendingExpire = TRUE],
                 expired |-> FALSE]

\* spec.md 4.4 Touch
CFileCacheSet_Touch(c, objId, t) ==
  IF objId \notin DOMAIN c.objects THEN [cache |-> c, ok |-> FALSE]
  ELSE [cache |-> [c EXCEPT !.objects[objId].lastAccessAt = t], ok |-> TRUE]

\* spec.md 4.4 Subscribe: the object's path, or NoPath
CFileCacheSet_SubscribeCacheObject(c, objId) ==
  IF objId \notin DOMAIN c.objects THEN [cache |-> c, path |-> NoPath]
  ELSE LET o == c.objects[objId]
       IN  [cache |-> [c EXCEPT !.objects[objId].subscriberCount = @ + 1],
            path |-> BuildPathname(objId, BaseDirName, o.type, o.filename)]

\* Unsubscribe releasing the last pin of an object without looking at
\* pendingExpire
UnSubscribeCacheObject_KeepsPending(c, typeName, objId) ==
  IF \/ objId \notin DOMAIN c.objects
     \/ c.objects[objId].type # typeName
     \/ c.objects[objId].subscriberCount = 0
  THEN c
  ELSE LET o == c.objects[objId]
       IN  IF o.subscriberCount > 1
           THEN [c EXCEPT !.objects[objId].subscriberCount = @ - 1]
           ELSE [c EXCEPT !.objects[objId].subscriberCount = 0,
                          !.objects[objId].writeOpen = FALSE]

\* spec.md 4.4 Unsubscribe
UnSubscribeCacheObject(c, typeName, objId) ==
  IF \/ objId \notin DOMAIN c.objects
     \/ c.objects[objId].type # typeName
     \/ c.objects[objId].subscriberCount = 0
  THEN c
  ELSE LET o == c.objects[objId]
       IN  IF o.subscriberCount > 1
           THEN [c EXCEPT !.objects[objId].subscriberCount = @ - 1]
           ELSE LET c1 == [c EXCEPT !.objects[objId].subscriberCount = 0,
                                    !.objects[objId].writeOpen = FALSE]
                IN  IF o.pendingExpire
                    THEN RemoveObjects(c1, typeName, {objId})
                    ELSE c1

\* spec.md 4.5 CleanupOrphans: drop the records whose path is missing
RECURSIVE DropRecords(_, _)
DropRecords(c, ids) ==
  IF ids = {} THEN c
  ELSE LET id == CHOOSE x \in ids : TRUE
           o  == c.objects[id]
           c1 == [c EXCEPT !.objects = Drop(@, {id}),
                           !.types[o.type].usedBytes = @ - o.size]
       IN  DropRecords(c1, ids \ {id})

CleanupOrphans(c) ==
  DropRecords(c, {id \in DOMAIN c.objects :
                    ObjectPath(c.objects[id], id) \notin DOMAIN c.disk})

\* spec.md 4.7: validate one subscribed object against its backing file
CheckSubscribedObject(c, typeName, objId, t) ==
  IF objId \notin DOMAIN c.objects \/ c.objects[objId].type # typeName THEN c
  ELSE LET o == c.objects[objId]
           p == ObjectPath(o, objId)
       IN  IF p \notin DOMAIN c.disk \/ c.disk[p].bytes # o.size
           THEN [c EXCEPT !.objects[objId].lastAccessAt = t]
           ELSE c

DirEntryAgeThreshold == 1

\* spec.md 4.5 CleanupDirTypes: the dirType objects whose directory holds no
\* entry older than the threshold
RECURSIVE RemoveEach(_, _)
RemoveEach(c, ids) ==
  IF ids = {} THEN c
  ELSE LET id == CHOOSE x \in ids : TRUE
       IN  RemoveEach(RemoveObjects(c, c.objects[id].type, {id}), ids \ {id})

HasOldEntry(c, id, t) ==
  LET p == ObjectPath(c.objects[id], id)
  IN  /\ p \in DOMAIN c.disk
      /\ c.disk[p].bytes > 0
      /\ t - c.disk[p].mtime > DirEntryAgeThreshold

CleanupDirTypes(c, t) ==
  RemoveEach(c, {id \in DOMAIN c.objects :
                   /\ c.types[c.objects[id].type].dirType
                   /\ ~HasOldEntry(c, id, t)})

RECURSIVE MaxOf(_)
MaxOf(S) ==
  IF S = {} THEN 0
  ELSE LET x == CHOOSE y \in S : TRUE
           m == MaxOf(S \ {x})
       IN  IF x > m THEN x ELSE m

\* spec.md 4.5 WalkDirTree: rebuild the records of the declared types from the
\* tree (id from the path, size from stat, filename from the on-disk name,
\* times from mtime, cost and lifetime from the type) and set the id counter.
WalkDirTree(c, declared) ==
  LET found == {p \in DOMAIN c.disk :
                  /\ p.type \in DOMAIN declared
                  /\ p.type \in c.typeDirs
                  /\ GetObjectIdFromPath(p) > 0}
      ids   == {GetObjectIdFromPath(p) : p \in found}
      PathOf(id) == CHOOSE p \in found : GetObjectIdFromPath(p) = id
      objs  == [id \in ids |->
                  LET p == PathOf(id)
                  IN  [type |-> p.type, filename |-> p.name,
                       size |-> c.disk[p].bytes,
                       cost |-> declared[p.type].cost,
                       lifetime |-> declared[p.type].lifetime,
                       lastAccessAt |-> c.disk[p].mtime,
                       writeOpen |-> FALSE, subscriberCount |-> 0,
                       pendingExpire |-> FALSE]]
  IN  [c EXCEPT
         !.types = [t \in DOMAIN declared |->
                      [declared[t] EXCEPT
                         !.usedBytes = SumSize(objs, ObjectsOfType(objs, t))]],
         !.objects = objs,
         !.nextId = MaxOf(ids) + 1]

\* spec.md 4.5 CleanupAtStartup: purge the objects whose backing file is
\* missing or whose type was not declared
CleanupAtStartup(c) ==
  DropRecords(c, {id \in DOMAIN c.objects :
                    \/ ObjectPath(c.objects[id], id) \notin DOMAIN c.disk
                    \/ c.objects[id].type \notin c.typeDirs})

----------------------------------------------------------------------------
(* Request handlers (CategoryHandler.cpp).  A handler is a function of the *)
(* state and the request: it yields the engine state it leaves, the        *)
(* subscriber list and the replies it sent on the message, in order.       *)

Absent == 0 - 1

Success == [err |-> "ok", path |-> NoPath, val |-> 0, subscribed |-> FALSE]

Error(code) == [err |-> code, path |-> NoPath, val |-> 0, subscribed |-> FALSE]

Out(c, subs, replies) == [cache |-> c, subs |-> subs, replies |-> replies]

\* A numeric field of a request: `MojInt64 x = 0; payload.get(name, x)` leaves
\* the 0 when the payload does not hold the field.
PayloadValue(v) == IF v = Absent THEN 0 ELSE v

\* CCacheParamValues params(loWatermark, hiWatermark, size, cost, lifetime)
ParamValues(payload) ==
  [loWatermark |-> PayloadValue(payload.loWatermark),
   hiWatermark |-> PayloadValue(payload.hiWatermark),
   size        |-> PayloadValue(payload.size),
   cost        |-> PayloadValue(payload.cost),
   lifetime    |-> PayloadValue(payload.lifetime)]

\* DefineType accepting a hiWatermark equal to the loWatermark
DefineType_EqualAccepted(typeName, payload, dirType, diskOk) ==
  LET params == ParamValues(payload)
      r == CFileCacheSet_DefineType(Engine, typeName, params, dirType, diskOk)
  IN  IF params.hiWatermark < params.loWatermark
        THEN Out(Engine, m_subscribers, <<Error("FCInvalidParams")>>)
      ELSE IF TypeExists(Engine, typeName)
        THEN Out(Engine, m_subscribers, <<Error("FCExistsError")>>)
      ELSE IF r.ok
        THEN Out(r.cache, m_subscribers, <<Success>>)
      ELSE Out(r.cache, m_subscribers, <<Error("FCDefineError")>>)

\* DefineType without the test of TypeExists
DefineType_NoExistsTest(typeName, payload, dirType, diskOk) ==
  LET params == ParamValues(payload)
      r == CFileCacheSet_DefineType(Engine, typeName, params, dirType, diskOk)
  IN  IF params.hiWatermark <= params.loWatermark
        THEN Out(Engine, m_subscribers, <<Error("FCInvalidParams")>>)
      ELSE IF r.ok
        THEN Out(r.cache, m_subscribers, <<Success>>)
      ELSE Out(r.cache, m_subscribers, <<Error("FCDefineError")>>)

\* The configurator branch (NEEDS_CONFIGURATOR_FIX) is not compiled in.
DefineType(typeName, payload, dirType, diskOk) ==
  LET params == ParamValues(payload)
      r == CFileCacheSet_DefineType(Engine, typeName, params, dirType, diskOk)
  IN  IF params.hiWatermark <= params.loWatermark
        THEN Out(Engine, m_subscribers, <<Error("FCInvalidParams")>>)
      ELSE IF TypeExists(Engine, typeName)
        THEN Out(Engine, m_subscribers, <<Error("FCExistsError")>>)
      ELSE IF r.ok
        THEN Out(r.cache, m_subscribers, <<Success>>)
      ELSE Out(r.cache, m_subscribers, <<Error("FCDefineError")>>)

ChangeType(typeName, payload) ==
  LET params == ParamValues(payload)
      r == CFileCacheSet_ChangeType(Engine, typeName, params)
  IN  IF params.hiWatermark # 0 /\ params.hiWatermark <= params.loWatermark
        THEN Out(Engine, m_subscribers, <<Error("FCInvalidParams")>>)
      ELSE IF r.ok
        THEN Out(r.cache, m_subscribers, <<Success>>)
      ELSE Out(r.cache, m_subscribers, <<Error("FCChangeError")>>)

\* DeleteType replying success without putting freedSpace
DeleteType_NoFreedSpace(typeName) ==
  LET r == CFileCacheSet_DeleteType(Engine, typeName)
  IN  IF r.freed >= 0
        THEN Out(r.cache, m_subscribers, <<Success>>)
      ELSE Out(r.cache, m_subscribers, <<Error("FCDeleteError")>>)

\* DeleteType taking the engine's -1 for a number of freed bytes
DeleteType_FreedFromMinusOne(typeName) ==
  LET r == CFileCacheSet_DeleteType(Engine, typeName)
  IN  IF r.freed >= 0 - 1
        THEN Out(r.cache, m_subscribers, <<[Success EXCEPT !.val = r.freed]>>)
      ELSE Out(r.cache, m_subscribers, <<Error("FCDeleteError")>>)

\* DeleteType taking a freedSpace of 0 for a failure
DeleteType_ZeroFreedIsError(typeName) ==
  LET r == CFileCacheSet_DeleteType(Engine, typeName)
  IN  IF r.freed > 0
        THEN Out(r.cache, m_subscribers, <<[Success EXCEPT !.val = r.freed]>>)
      ELSE Out(r.cache, m_subscribers, <<Error("FCDeleteError")>>)

DeleteType(typeName) ==
  LET r == CFileCacheSet_DeleteType(Engine, typeName)
  IN  IF r.freed >= 0
        THEN Out(r.cache, m_subscribers, <<[Success EXCEPT !.val = r.freed]>>)
      ELSE Out(r.cache, m_subscribers, <<Error("FCDeleteError")>>)

\* InsertCacheObject without the defaults of the type for an omitted field
InsertCacheObject_NoDefaults(payload, diskOk) ==
  LET typeName == payload.typeName
      size     == IF payload.size = Absent THEN 0 ELSE payload.size
      cost     == IF payload.cost = Absent THEN 0 ELSE payload.cost
      lifetime == IF payload.lifetime = Absent THEN 0 ELSE payload.lifetime
      ins      == CFileCacheSet_InsertCacheObject(Engine, typeName,
                    payload.fileName, size, cost, lifetime, diskOk, now)
      sub      == CFileCacheSet_SubscribeCacheObject(ins.cache, ins.id)
  IN  IF \/ ~TypeExists(Engine, typeName)
         \/ (size <= GetFilesystemFileSize(1) /\ isTypeDirType(Engine, typeName))
        THEN Out(Engine, m_subscribers, <<Error("FCInvalidParams")>>)
      ELSE IF ins.id > 0
        THEN IF payload.subscribe
               THEN IF sub.path # NoPath
                      THEN Out(sub.cache, Append(m_subscribers, sub.path),
                               <<[Success EXCEPT !.path = sub.path,
                                                 !.subscribed = TRUE]>>)
                    ELSE Out(sub.cache, m_subscribers, <<Success>>)
             ELSE Out(ins.cache, m_subscribers,
                      <<[Success EXCEPT !.path =
                           BuildPathname(ins.id, BaseDirName, typeName,
                                         payload.fileName)]>>)
      ELSE Out(ins.cache, m_subscribers, <<Error("FCExistsError")>>)

\* InsertCacheObject taking the id 0 for an object id
InsertCacheObject_ZeroIdAccepted(payload, diskOk) ==
  LET typeName == payload.typeName
      params   == DescribeType(Engine, typeName)
      size     == IF payload.size = Absent THEN params.size ELSE payload.size
      cost     == IF payload.cost = Absent THEN params.cost ELSE payload.cost
      lifetime == IF payload.lifetime = Absent THEN params.lifetime
                  ELSE payload.lifetime
      ins      == CFileCacheSet_InsertCacheObject(Engine, typeName,
                    payload.fileName, size, cost, lifetime, diskOk, now)
      sub      == CFileCacheSet_SubscribeCacheObject(ins.cache, ins.id)
  IN  IF \/ ~TypeExists(Engine, typeName)
         \/ (size <= GetFilesystemFileSize(1) /\ isTypeDirType(Engine, typeName))
        THEN Out(Engine, m_subscribers, <<Error("FCInvalidParams")>>)
      ELSE IF payload.subscribe
        THEN IF sub.path # NoPath
               THEN Out(sub.cache, Append(m_subscribers, sub.path),
                        <<[Success EXCEPT !.path = sub.path,
                                          !.subscribed = TRUE]>>)
             ELSE Out(sub.cache, m_subscribers, <<Success>>)
      ELSE Out(ins.cache, m_subscribers,
               <<[Success EXCEPT !.path =
                    BuildPathname(ins.id, BaseDirName, typeName,
                                  payload.fileName)]>>)

\* payload: [typeName, fileName, size, cost, lifetime, subscribe]; size, cost
\* and lifetime are Absent when the request does not give them
\* InsertCacheObject with the size rule of directory types applied to every type
InsertCacheObject_BlockRuleForAll(payload, diskOk) ==
  LET typeName == payload.typeName
      params   == DescribeType(Engine, typeName)
      size     == IF payload.size = Absent THEN params.size ELSE payload.size
      cost     == IF payload.cost = Absent THEN params.cost ELSE payload.cost
      lifetime == IF payload.lifetime = Absent THEN params.lifetime
                  ELSE payload.lifetime
      ins      == CFileCacheSet_InsertCacheObject(Engine, typeName,
                    payload.fileName, size, cost, lifetime, diskOk, now)
      sub      == CFileCacheSet_SubscribeCacheObject(ins.cache, ins.id)
  IN  IF \/ ~TypeExists(Engine, typeName)
         \/ size <= GetFilesystemFileSize(1)
        THEN Out(Engine, m_subscribers, <<Error("FCInvalidParams")>>)
      ELSE IF ins.id > 0
        THEN IF payload.subscribe
               THEN IF sub.path # NoPath
                      THEN Out(sub.cache, Append(m_subscribers, sub.path),
                               <<[Success EXCEPT !.path = sub.path,
                                                 !.subscribed = TRUE]>>)
                    ELSE Out(sub.cache, m_subscribers, <<Success>>)
             ELSE Out(ins.cache, m_subscribers,
                      <<[Success EXCEPT !.path =
                           BuildPathname(ins.id, BaseDirName, typeName,
                                         payload.fileName)]>>)
      ELSE Out(ins.cache, m_subscribers, <<Error("FCExistsError")>>)

\* InsertCacheObject letting a directory object of exactly one block through
InsertCacheObject_OneBlockAccepted(payload, diskOk) ==
  LET typeName == payload.typeName
      params   == DescribeType(Engine, typeName)
      size     == IF payload.size = Absent THEN params.size ELSE payload.size
      cost     == IF payload.cost = Absent THEN params.cost ELSE payload.cost
      lifetime == IF payload.lifetime = Absent THEN params.lifetime
                  ELSE payload.lifetime
      ins      == CFileCacheSet_InsertCacheObject(Engine, typeName,
                    payload.fileName, size, cost, lifetime, diskOk, now)
      sub      == CFileCacheSet_SubscribeCacheObject(ins.cache, ins.id)
  IN  IF \/ ~TypeExists(Engine, typeName)
         \/ (size < GetFilesystemFileSize(1) /\ isTypeDirType(Engine, typeName))
        THEN Out(Engine, m_subscribers, <<Error("FCInvalidParams")>>)
      ELSE IF ins.id > 0
        THEN IF payload.subscribe
               THEN IF sub.path # NoPath
                      THEN Out(sub.cache, Append(m_subscribers, sub.path),
                               <<[Success EXCEPT !.path = sub.path,
                                                 !.subscribed = TRUE]>>)
                    ELSE Out(sub.cache, m_subscribers, <<Success>>)
             ELSE Out(ins.cache, m_subscribers,
                      <<[Success EXCEPT !.path =
                           BuildPathname(ins.id, BaseDirName, typeName,
                                         payload.fileName)]>>)
      ELSE Out(ins.cache, m_subscribers, <<Error("FCExistsError")>>)

\* InsertCacheObject assigning pathName only in the branch without subscribe
InsertCacheObject_NoPathWhenSubscribed(payload, diskOk) ==
  LET typeName == payload.typeName
      params   == DescribeType(Engine, typeName)
      size     == IF payload.size = Absent THEN params.size ELSE payload.size
      cost     == IF payload.cost = Absent THEN params.cost ELSE payload.cost
      lifetime == IF payload.lifetime = Absent THEN params.lifetime
                  ELSE payload.lifetime
      ins      == CFileCacheSet_InsertCacheObject(Engine, typeName,
                    payload.fileName, size, cost, lifetime, diskOk, now)
      sub      == CFileCacheSet_SubscribeCacheObject(ins.cache, ins.id)
  IN  IF \/ ~TypeExists(Engine, typeName)
         \/ (size <= GetFilesystemFileSize(1) /\ isTypeDirType(Engine, typeName))
        THEN Out(Engine, m_subscribers, <<Error("FCInvalidParams")>>)
      ELSE IF ins.id > 0
        THEN IF payload.subscribe
               THEN IF sub.path # NoPath
                      THEN Out(sub.cache, Append(m_subscribers, sub.path),
                               <<[Success EXCEPT !.subscribed = TRUE]>>)
                    ELSE Out(sub.cache, m_subscribers, <<Success>>)
             ELSE Out(ins.cache, m_subscribers,
                      <<[Success EXCEPT !.path =
                           BuildPathname(ins.id, BaseDirName, typeName,
                                         payload.fileName)]>>)
      ELSE Out(ins.cache, m_subscribers, <<Error("FCExistsError")>>)

InsertCacheObject(payload, diskOk) ==
  LET typeName == payload.typeName
      params   == DescribeType(Engine, typeName)
      size     == IF payload.size = Absent THEN params.size ELSE payload.size
      cost     == IF payload.cost = Absent THEN params.cost ELSE payload.cost
      lifetime == IF payload.lifetime = Absent THEN params.lifetime
                  ELSE payload.lifetime
      ins      == CFileCacheSet_InsertCacheObject(Engine, typeName,
                    payload.fileName, size, cost, lifetime, diskOk, now)
      sub      == CFileCacheSet_SubscribeCacheObject(ins.cache, ins.id)
  IN  IF \/ ~TypeExists(Engine, typeName)
         \/ (size <= GetFilesystemFileSize(1) /\ isTypeDirType(Engine, typeName))
        THEN Out(Engine, m_subscribers, <<Error("FCInvalidParams")>>)
      ELSE IF ins.id > 0
        THEN IF payload.subscribe
               THEN IF sub.path # NoPath
                      THEN Out(sub.cache, Append(m_subscribers, sub.path),
                               <<[Success EXCEPT !.path = sub.path,
                                                 !.subscribed = TRUE]>>)
                    ELSE Out(sub.cache, m_subscribers, <<Success>>)
             ELSE Out(ins.cache, m_subscribers,
                      <<[Success EXCEPT !.path =
                           BuildPathname(ins.id, BaseDirName, typeName,
                                         payload.fileName)]>>)
      ELSE Out(ins.cache, m_subscribers, <<Error("FCExistsError")>>)

\* ResizeCacheObject replying success for any size the engine returns
ResizeCacheObject_AnySizeAccepted(pathName, newSize) ==
  LET objId == GetObjectIdFromPath(pathName)
      r     == CFileCacheSet_Resize(Engine, objId, newSize, now)
  IN  IF objId > 0
        THEN IF GetTypeNameFromPath(BaseDirName, pathName) =
                  GetTypeForObjectId(Engine, objId)
               THEN Out(r.cache, m_subscribers,
                        <<[Success EXCEPT !.val = newSize]>>)
             ELSE Out(Engine, m_subscribers, <<Error("FCExistsError")>>)
      ELSE Out(Engine, m_subscribers, <<Error("FCExistsError")>>)

\* ResizeCacheObject leaving msgText empty when the engine did not resize
ResizeCacheObject_NoReplyOnFailure(pathName, newSize) ==
  LET objId == GetObjectIdFromPath(pathName)
      r     == CFileCacheSet_Resize(Engine, objId, newSize, now)
  IN  IF objId > 0
        THEN IF GetTypeNameFromPath(BaseDirName, pathName) =
                  GetTypeForObjectId(Engine, objId)
               THEN IF r.size = newSize
                      THEN Out(r.cache, m_subscribers,
                               <<[Success EXCEPT !.val = r.size]>>)
                    ELSE Out(r.cache, m_subscribers, <<>>)
             ELSE Out(Engine, m_subscribers, <<Error("FCExistsError")>>)
      ELSE Out(Engine, m_subscribers, <<Error("FCExistsError")>>)

ResizeCacheObject(pathName, newSize) ==
  LET objId == GetObjectIdFromPath(pathName)
      r     == CFileCacheSet_Resize(Engine, objId, newSize, now)
  IN  IF objId > 0
        THEN IF GetTypeNameFromPath(BaseDirName, pathName) =
                  GetTypeForObjectId(Engine, objId)
               THEN IF r.size = newSize
                      THEN Out(r.cache, m_subscribers,
                               <<[Success EXCEPT !.val = r.size]>>)
                    ELSE Out(r.cache, m_subscribers, <<Error("FCResizeError")>>)
             ELSE Out(Engine, m_subscribers, <<Error("FCExistsError")>>)
      ELSE Out(Engine, m_subscribers, <<Error("FCExistsError")>>)

\* ExpireCacheObject with the test of the engine's result the wrong way round
ExpireCacheObject_ResultInverted(pathName) ==
  LET objId == GetObjectIdFromPath(pathName)
      r     == CFileCacheSet_ExpireCacheObject(Engine, objId)
  IN  IF objId > 0
        THEN IF GetTypeNameFromPath(BaseDirName, pathName) =
                  GetTypeForObjectId(Engine, objId)
               THEN IF ~r.expired
                      THEN Out(r.cache, m_subscribers, <<Success>>)
                    ELSE Out(r.cache, m_subscribers, <<Error("FCInUseError")>>)
             ELSE IF GetTypeNameFromPath(BaseDirName, pathName) = ""
               THEN Out(Engine, m_subscribers, <<Error("FCExistsError")>>)
             ELSE Out(Engine, m_subscribers, <<Success>>)
      ELSE Out(Engine, m_subscribers, <<Error("FCExistsError")>>)

\* ExpireCacheObject replying success whatever the engine returned
ExpireCacheObject_AlwaysSuccess(pathName) ==
  LET objId == GetObjectIdFromPath(pathName)
      r     == CFileCacheSet_ExpireCacheObject(Engine, objId)
  IN  IF objId > 0
        THEN IF GetTypeNameFromPath(BaseDirName, pathName) =
                  GetTypeForObjectId(Engine, objId)
               THEN Out(r.cache, m_subscribers, <<Success>>)
             ELSE IF GetTypeNameFromPath(BaseDirName, pathName) = ""
               THEN Out(Engine, m_subscribers, <<Error("FCExistsError")>>)
             ELSE Out(Engine, m_subscribers, <<Success>>)
      ELSE Out(Engine, m_subscribers, <<Error("FCExistsError")>>)

\* ExpireCacheObject without the comparison of the path's type name
ExpireCacheObject_TypeNotCompared(pathName) ==
  LET objId == GetObjectIdFromPath(pathName)
      r     == CFileCacheSet_ExpireCacheObject(Engine, objId)
  IN  IF objId > 0
        THEN IF r.expired
               THEN Out(r.cache, m_subscribers, <<Success>>)
             ELSE Out(r.cache, m_subscribers, <<Error("FCInUseError")>>)
      ELSE Out(Engine, m_subscribers, <<Error("FCExistsError")>>)

ExpireCacheObject(pathName) ==
  LET objId == GetObjectIdFromPath(pathName)
      r     == CFileCacheSet_ExpireCacheObject(Engine, objId)
  IN  IF objId > 0
        THEN IF GetTypeNameFromPath(BaseDirName, pathName) =
                  GetTypeForObjectId(Engine, objId)
               THEN IF r.expired
                      THEN Out(r.cache, m_subscribers, <<Success>>)
                    ELSE Out(r.cache, m_subscribers, <<Error("FCInUseError")>>)
             ELSE IF GetTypeNameFromPath(BaseDirName, pathName) = ""
               THEN Out(Engine, m_subscribers, <<Error("FCExistsError")>>)
             ELSE Out(Engine, m_subscribers, <<Success>>)
      ELSE Out(Engine, m_subscribers, <<Error("FCExistsError")>>)

\* SubscribeCacheObject without the comparison of the path's type name
SubscribeCacheObject_TypeNotCompared(pathName) ==
  LET objId == GetObjectIdFromPath(pathName)
      r     == CFileCacheSet_SubscribeCacheObject(Engine, objId)
  IN  IF objId = 0
        THEN Out(Engine, m_subscribers, <<Error("FCExistsError")>>)
      ELSE IF r.path = NoPath
        THEN Out(r.cache, m_subscribers, <<Error("FCExistsError")>>)
      ELSE Out(r.cache, Append(m_subscribers, pathName),
               <<[Success EXCEPT !.subscribed = TRUE]>>)

\* SubscribeCacheObject registering the subscription twice with the engine
SubscribeCacheObject_CountsTwice(pathName) ==
  LET objId == GetObjectIdFromPath(pathName)
      r     == CFileCacheSet_SubscribeCacheObject(Engine, objId)
  IN  IF objId = 0
        THEN Out(Engine, m_subscribers, <<Error("FCExistsError")>>)
      ELSE IF GetTypeNameFromPath(BaseDirName, pathName) #
                GetTypeForObjectId(Engine, objId)
        THEN Out(Engine, m_subscribers, <<Error("FCExistsError")>>)
      ELSE IF r.path = NoPath
        THEN Out(r.cache, m_subscribers, <<Error("FCExistsError")>>)
      ELSE Out(CFileCacheSet_SubscribeCacheObject(r.cache, objId).cache,
               Append(m_subscribers, pathName),
               <<[Success EXCEPT !.subscribed = TRUE]>>)

SubscribeCacheObject(pathName) ==
  LET objId == GetObjectIdFromPath(pathName)
      r     == CFileCacheSet_SubscribeCacheObject(Engine, objId)
  IN  IF objId = 0
        THEN Out(Engine, m_subscribers, <<Error("FCExistsError")>>)
      ELSE IF GetTypeNameFromPath(BaseDirName, pathName) #
                GetTypeForObjectId(Engine, objId)
        THEN Out(Engine, m_subscribers, <<Error("FCExistsError")>>)
      ELSE IF r.path = NoPath
        THEN Out(r.cache, m_subscribers, <<Error("FCExistsError")>>)
      ELSE Out(r.cache, Append(m_subscribers, pathName),
               <<[Success EXCEPT !.subscribed = TRUE]>>)

RemoveAt(seq, i) ==
  SubSeq(seq, 1, i - 1) \o SubSeq(seq, i + 1, Len(seq))

\* CancelSubscription erasing the handle without UnSubscribeCacheObject
CancelSubscription_EraseOnly(i) ==
  Out(Engine, RemoveAt(m_subscribers, i), <<>>)

\* The cancellation of the i-th Subscription of m_subscribers
CancelSubscription(i) ==
  LET pathName == m_subscribers[i]
      objId    == GetObjectIdFromPath(pathName)
      typeName == GetTypeNameFromPath(BaseDirName, pathName)
  IN  IF objId > 0 /\ typeName # ""
        THEN Out(UnSubscribeCacheObject(Engine, typeName, objId),
                 RemoveAt(m_subscribers, i), <<>>)
      ELSE Out(Engine, RemoveAt(m_subscribers, i), <<>>)

\* TouchCacheObject counting the touch as a subscription of the object
TouchCacheObject_AlsoSubscribes(pathName) ==
  LET objId == GetObjectIdFromPath(pathName)
      r     == CFileCacheSet_Touch(Engine, objId, now)
  IN  IF objId > 0
        THEN IF GetTypeNameFromPath(BaseDirName, pathName) =
                  GetTypeForObjectId(Engine, objId)
               THEN IF r.ok
                      THEN Out(CFileCacheSet_SubscribeCacheObject(r.cache, objId).cache,
                               m_subscribers, <<Success>>)
                    ELSE Out(r.cache, m_subscribers, <<Error("FCExistsError")>>)
             ELSE Out(Engine, m_subscribers, <<Error("FCExistsError")>>)
      ELSE Out(Engine, m_subscribers, <<Error("FCExistsError")>>)

\* TouchCacheObject taking the object out of pending expiry
TouchCacheObject_ClearsPendingExpire(pathName) ==
  LET objId == GetObjectIdFromPath(pathName)
      r     == CFileCacheSet_Touch(Engine, objId, now)
  IN  IF objId > 0
        THEN IF GetTypeNameFromPath(BaseDirName, pathName) =
                  GetTypeForObjectId(Engine, objId)
               THEN IF r.ok
                      THEN Out([r.cache EXCEPT !.objects[objId].pendingExpire = FALSE],
                               m_subscribers, <<Success>>)
                    ELSE Out(r.cache, m_subscribers, <<Error("FCExistsError")>>)
             ELSE Out(Engine, m_subscribers, <<Error("FCExistsError")>>)
      ELSE Out(Engine, m_subscribers, <<Error("FCExistsError")>>)

TouchCacheObject(pathName) ==
  LET objId == GetObjectIdFromPath(pathName)
      r     == CFileCacheSet_Touch(Engine, objId, now)
  IN  IF objId > 0
        THEN IF GetTypeNameFromPath(BaseDirName, pathName) =
                  GetTypeForObjectId(Engine, objId)
               THEN IF r.ok
                      THEN Out(r.cache, m_subscribers, <<Success>>)
                    ELSE Out(r.cache, m_subscribers, <<Error("FCExistsError")>>)
             ELSE Out(Engine, m_subscribers, <<Error("FCExistsError")>>)
      ELSE Out(Engine, m_subscribers, <<Error("FCExistsError")>>)

(* CopyCacheObject.  A file name is the record [base, marks, ext]: the     *)
(* basename, the "-(N)" marks appended to it, and the extension.           *)

\* paths outside the cache that are regular files
RegularFiles == {"/media/internal/notes.txt"}

s_defaultDownloadDir == "/media/internal/downloads"

\* the bound of the "-(N)" marks; its value is in a header outside src/
s_maxUniqueFileIndex == 3

NoName == [base |-> "", marks |-> <<>>, ext |-> ""]

\* the file names of the model, split at the extension
FileNameOf(fileName) ==
  IF fileName = "foo.bar" THEN [base |-> "foo", marks |-> <<>>, ext |-> ".bar"]
  ELSE NoName

\* GetFileBasename(fileName) << "-(" << i << ")" << GetFileExtension(fileName)
NewFileName(fileName, i) == [fileName EXCEPT !.marks = Append(@, i)]

\* fs::exists(filepath / fileName); an empty fileName names the directory
PathExists(dirs, destination, fileName) ==
  \/ fileName = NoName
  \/ fileName \in dirs[destination]

\* the loop `while (fs::exists(filepath / fileName) && (i < s_maxUniqueFileIndex))`
RECURSIVE UniqueFileName(_, _, _, _, _)
UniqueFileName(dirs, destination, original, fileName, i) ==
  IF PathExists(dirs, destination, fileName) /\ i < s_maxUniqueFileIndex
  THEN UniqueFileName(dirs, destination, original, NewFileName(original, i), i + 1)
  ELSE [fileName |-> fileName, i |-> i]

CopyOut(dirs, started, replies) ==
  [dirs |-> dirs, started |-> started, replies |-> replies]

\* what the handler knows before it looks at the destination
CopySource(pathName, fileNameParam) ==
  LET objId == GetObjectIdFromPath(pathName)
      given == fileNameParam # ""
      found == IF given THEN FileNameOf(fileNameParam)
               ELSE FileNameOf(CachedObjectFilename(Engine, objId))
  IN  IF objId > 0
        THEN IF GetTypeNameFromPath(BaseDirName, pathName) =
                  GetTypeForObjectId(Engine, objId)
               THEN IF CachedObjectSize(Engine, objId) < 0
                      THEN [errCode |-> "FCExistsError", fileName |-> NoName]
                    ELSE IF found = NoName
                      THEN [errCode |-> "FCArgumentError", fileName |-> NoName]
                    ELSE [errCode |-> "", fileName |-> found]
             ELSE [errCode |-> "FCExistsError", fileName |-> NoName]
      ELSE [errCode |-> "FCExistsError", fileName |-> NoName]

\* CopyCacheObject without the test of SBIsPathAllowed
CopyCacheObject_NoSandboxTest(pathName, destinationParam, fileNameParam, allowed, diskOk) ==
  LET destination == IF destinationParam # "" THEN destinationParam
                     ELSE s_defaultDownloadDir
      src     == CopySource(pathName, fileNameParam)
      missing == destination \notin DOMAIN destDirs /\ destination \notin RegularFiles
      dirs    == IF missing THEN Put(destDirs, destination, {}) ELSE destDirs
      u       == UniqueFileName(dirs, destination, src.fileName, src.fileName, 1)
      reply(code) == <<Error(code)>>
  IN  IF missing /\ ~diskOk
        THEN CopyOut(destDirs, {}, reply("FCDirectoryError"))
      ELSE IF destination \in RegularFiles
        THEN CopyOut(destDirs, {}, reply("FCArgumentError"))
      ELSE IF u.i = s_maxUniqueFileIndex
        THEN CopyOut(dirs, {}, reply("FCArgumentError"))
      ELSE IF src.errCode # ""
        THEN CopyOut(dirs, {}, reply(src.errCode))
      ELSE CopyOut(dirs,
                   {[source |-> pathName, destination |-> destination,
                     fileName |-> u.fileName]},
                   <<>>)

\* destinationParam "": the payload holds no destination.  allowed: the answer
\* of SBIsPathAllowed(destination, sender, SB_WRITE | SB_CREATE).  diskOk:
\* fs::create_directories does not throw.  A started copy replies later.
CopyCacheObject(pathName, destinationParam, fileNameParam, allowed, diskOk) ==
  LET destination == IF destinationParam # "" THEN destinationParam
                     ELSE s_defaultDownloadDir
      src     == CopySource(pathName, fileNameParam)
      missing == destination \notin DOMAIN destDirs /\ destination \notin RegularFiles
      dirs    == IF missing THEN Put(destDirs, destination, {}) ELSE destDirs
      u       == UniqueFileName(dirs, destination, src.fileName, src.fileName, 1)
      reply(code) == <<Error(code)>>
  IN  IF ~allowed
        THEN CopyOut(destDirs, {}, reply("FCPermError"))
      ELSE IF missing /\ ~diskOk
        THEN CopyOut(destDirs, {}, reply("FCDirectoryError"))
      ELSE IF destination \in RegularFiles
        THEN CopyOut(destDirs, {}, reply("FCArgumentError"))
      ELSE IF u.i = s_maxUniqueFileIndex
        THEN CopyOut(dirs, {}, reply("FCArgumentError"))
      ELSE IF src.errCode # ""
        THEN CopyOut(dirs, {}, reply(src.errCode))
      ELSE CopyOut(dirs,
                   {[source |-> pathName, destination |-> destination,
                     fileName |-> u.fileName]},
                   <<>>)

\* The replies of GetCacheObjectSize and GetCacheObjectFilename; the handlers
\* change nothing
GetCacheObjectSize(pathName) ==
  LET objId   == GetObjectIdFromPath(pathName)
      objSize == CachedObjectSize(Engine, objId)
  IN  IF objId > 0 /\ objSize >= 0
        THEN Out(Engine, m_subscribers, <<[err |-> "ok", size |-> objSize]>>)
      ELSE Out(Engine, m_subscribers, <<Error("FCExistsError")>>)

GetCacheObjectFilename(pathName) ==
  LET objId == GetObjectIdFromPath(pathName)
  IN  IF objId > 0
        THEN Out(Engine, m_subscribers,
                 <<[err |-> "ok", fileName |-> CachedObjectFilename(Engine, objId)]>>)
      ELSE Out(Engine, m_subscribers, <<Error("FCExistsError")>>)

\* The reply of GetCacheStatus; the handler changes nothing
GetCacheStatus ==
  Out(Engine, m_subscribers,
      <<[err |-> "ok", status |-> CFileCacheSet_GetCacheStatus(Engine)]>>)

\* spec.md 4.5 GetTypes: the names of the defined types
GetTypes(c) == DOMAIN c.types

\* The reply of DescribeType; the handler changes nothing
CategoryHandler_DescribeType(typeName) ==
  IF TypeExists(Engine, typeName)
  THEN Out(Engine, m_subscribers,
           <<[err |-> "ok", params |-> DescribeType(Engine, typeName)]>>)
  ELSE Out(Engine, m_subscribers, <<Error("FCExistsError")>>)

\* The reply of GetCacheTypes: "types" is put only when there is a type
GetCacheTypes ==
  IF GetTypes(Engine) # {}
  THEN Out(Engine, m_subscribers, <<[err |-> "ok", types |-> GetTypes(Engine)]>>)
  ELSE Out(Engine, m_subscribers, <<[err |-> "ok"]>>)

----------------------------------------------------------------------------
(* Steps: one request handled, one timer callback run, one process start *)

SetEngine(c) ==
  /\ types' = c.types
  /\ objects' = c.objects
  /\ nextId' = c.nextId
  /\ disk' = c.disk
  /\ typeDirs' = c.typeDirs

Handle(out) ==
  /\ SetEngine(out.cache)
  /\ m_subscribers' = out.subs
  /\ UNCHANGED <<now, cleanerTimer, destDirs, copies, timerRuns, running>>

PathsHandedOut(out) ==
  {out.replies[i].path : i \in {j \in DOMAIN out.replies :
                                  /\ out.replies[j].err = "ok"
                                  /\ out.replies[j].path # NoPath}}

OnDefineType(typeName, payload, dirType, diskOk) ==
  Handle(DefineType(typeName, payload, dirType, diskOk)) /\ UNCHANGED issued

OnChangeType(typeName, payload) ==
  Handle(ChangeType(typeName, payload)) /\ UNCHANGED issued

OnDeleteType(typeName) ==
  Handle(DeleteType(typeName)) /\ UNCHANGED issued

OnInsertCacheObject(payload, diskOk) ==
  /\ Handle(InsertCacheObject(payload, diskOk))
  /\ issued' = issued \cup {GetObjectIdFromPath(p) :
                              p \in PathsHandedOut(InsertCacheObject(payload, diskOk))}

OnResizeCacheObject(pathName, newSize) ==
  Handle(ResizeCacheObject(pathName, newSize)) /\ UNCHANGED issued

OnExpireCacheObject(pathName) ==
  Handle(ExpireCacheObject(pathName)) /\ UNCHANGED issued

OnSubscribeCacheObject(pathName) ==
  Handle(SubscribeCacheObject(pathName)) /\ UNCHANGED issued

OnCancelSubscription(i) ==
  Handle(CancelSubscription(i)) /\ UNCHANGED issued

OnTouchCacheObject(pathName) ==
  Handle(TouchCacheObject(pathName)) /\ UNCHANGED issued

OnCopyCacheObject(pathName, destinationParam, fileNameParam, allowed, diskOk) ==
  LET out == CopyCacheObject(pathName, destinationParam, fileNameParam,
                             allowed, diskOk)
  IN  /\ destDirs' = out.dirs
      /\ copies' = copies \cup out.started
      /\ UNCHANGED <<types, objects, nextId, disk, typeDirs, now, m_subscribers,
                     issued, cleanerTimer, timerRuns, running>>

\* CAsyncCopier: a started copy finishes, and its file is at the destination
CopyDone(c) ==
  /\ c \in copies
  /\ c.destination \in DOMAIN destDirs
  /\ destDirs' = [destDirs EXCEPT ![c.destination] = @ \cup {c.fileName}]
  /\ copies' = copies \ {c}
  /\ UNCHANGED <<types, objects, nextId, disk, typeDirs, now, m_subscribers,
                 issued, cleanerTimer, timerRuns, running>>

RECURSIVE CheckSubscribers(_, _, _)
CheckSubscribers(c, subs, t) ==
  IF subs = <<>> THEN c
  ELSE CheckSubscribers(
         CheckSubscribedObject(c, GetTypeNameFromPath(BaseDirName, Head(subs)),
                               GetObjectIdFromPath(Head(subs)), t),
         Tail(subs), t)

\* WorkerHandler without the call of CleanupOrphans
WorkerHandlerResult_NoCleanup ==
  CheckSubscribers(Engine, m_subscribers, now)

\* CategoryHandler::WorkerHandler: CleanupOrphans, then every subscription
WorkerHandlerResult ==
  CheckSubscribers(CleanupOrphans(Engine), m_subscribers, now)

RunWorkerHandler ==
  /\ SetEngine(WorkerHandlerResult)
  /\ UNCHANGED <<now, m_subscribers, issued, cleanerTimer, destDirs, copies, running>>

\* CategoryHandler::CleanerHandler, run by the timer that is armed; the timer
\* is not armed afterwards
RunCleanerHandler ==
  /\ cleanerTimer
  /\ SetEngine(CleanupDirTypes(Engine, now))
  /\ cleanerTimer' = FALSE
  /\ UNCHANGED <<now, m_subscribers, issued, destDirs, copies, running>>

\* TimerCallback, every 15 s; it returns true and stays armed
WorkerHandler == RunWorkerHandler /\ UNCHANGED timerRuns

\* CleanerCallback, 120 s after the handler was set up; it returns false
CleanerHandler == RunCleanerHandler /\ UNCHANGED timerRuns

\* The firings of the two timers, counted
TimerCallback ==
  /\ RunWorkerHandler
  /\ timerRuns' = [timerRuns EXCEPT !.worker = 1 - @]

\* CleanerCallback returning true: the 120 s timer stays armed
CleanerCallback_StaysArmed ==
  /\ cleanerTimer
  /\ SetEngine(CleanupDirTypes(Engine, now))
  /\ UNCHANGED <<now, m_subscribers, issued, cleanerTimer, destDirs, copies, running>>
  /\ timerRuns' = [timerRuns EXCEPT !.cleaner = 1 - @]

CleanerCallback ==
  /\ RunCleanerHandler
  /\ timerRuns' = [timerRuns EXCEPT !.cleaner = 1 - @]

\* CategoryHandler::GetSubscriberCount: the number of Subscription handles
GetSubscriberCount == Len(m_subscribers)

\* ServiceApp::powerdown: Base::shutdown() when the cache size and the number
\* of subscribers are both 0
powerdown ==
  /\ running' = (IF ~(GetCacheSize(Engine) # 0 \/ GetSubscriberCount # 0)
                 THEN FALSE ELSE running)
  /\ UNCHANGED <<types, objects, nextId, disk, typeDirs, now, m_subscribers,
                 issued, cleanerTimer, destDirs, copies, timerRuns>>

\* the callback of LSIdleTimeout, while the main loop runs
handle_idle_timeout_cb ==
  /\ running
  /\ powerdown

\* A new process on the same cache root: ServiceApp::ServiceApp, then
\* CategoryHandler::CategoryHandler.  The configuration step declares again
\* the types that were defined.
ServiceApp ==
  /\ SetEngine(CleanupAtStartup(WalkDirTree(Engine, types)))
  /\ m_subscribers' = <<>>
  /\ cleanerTimer' = TRUE
  /\ copies' = {}
  /\ timerRuns' = [worker |-> 0, cleaner |-> 0]
  /\ running' = TRUE
  /\ UNCHANGED <<now, issued, destDirs>>

----------------------------------------------------------------------------
(* The environment: the clock and the clients' file operations *)

Tick ==
  /\ now < MaxTime
  /\ now' = now + 1
  /\ UNCHANGED <<types, objects, nextId, disk, typeDirs, m_subscribers, issued,
                 cleanerTimer, destDirs, copies, timerRuns, running>>

\* A client writes the content of an object that is still receiving content.
ClientWrite(objId, bytes) ==
  /\ objId \in DOMAIN objects
  /\ objects[objId].writeOpen
  /\ ObjectPath(objects[objId], objId) \in DOMAIN disk
  /\ disk' = [disk EXCEPT ![ObjectPath(objects[objId], objId)] =
                            [bytes |-> bytes, mtime |-> now]]
  /\ UNCHANGED <<types, objects, nextId, typeDirs, now, m_subscribers, issued,
                 cleanerTimer, destDirs, copies, timerRuns, running>>

\* A backing file disappears from under the cache root.
ClientUnlink(objId) ==
  /\ objId \in DOMAIN objects
  /\ ObjectPath(objects[objId], objId) \in DOMAIN disk
  /\ disk' = Drop(disk, {ObjectPath(objects[objId], objId)})
  /\ UNCHANGED <<types, objects, nextId, typeDirs, now, m_subscribers, issued,
                 cleanerTimer, destDirs, copies, timerRuns, running>>

\* Another program creates a file in a directory outside the cache.
DestinationWrite(destination, fileName) ==
  /\ destination \in DOMAIN destDirs
  /\ fileName \notin destDirs[destination]
  /\ destDirs' = [destDirs EXCEPT ![destination] = @ \cup {fileName}]
  /\ UNCHANGED <<types, objects, nextId, disk, typeDirs, now, m_subscribers,
                 issued, cleanerTimer, copies, timerRuns, running>>

----------------------------------------------------------------------------
(* Specification: requests, timers and vanishing files at one instant *)

Init ==
  /\ types = <<>>
  /\ objects = <<>>
  /\ nextId = 1
  /\ disk = <<>>
  /\ typeDirs = {}
  /\ now = 0
  /\ m_subscribers = <<>>
  /\ issued = {}
  /\ cleanerTimer = TRUE
  /\ destDirs = [d \in {s_defaultDownloadDir} |-> {}]
  /\ copies = {}
  /\ timerRuns = [worker |-> 0, cleaner |-> 0]
  /\ running = TRUE

Params(lo, hi, size, cost, lifetime) ==
  [loWatermark |-> lo, hiWatermark |-> hi, size |-> size, cost |-> cost,
   lifetime |-> lifetime]

Payload(typeName, fileName, size, cost, lifetime, subscribe) ==
  [typeName |-> typeName, fileName |-> fileName, size |-> size, cost |-> cost,
   lifetime |-> lifetime, subscribe |-> subscribe]

TypeNames == {"A"}

FileNames == {"foo.bar"}

DefineParams == {Params(1, 3, 2, 0, 0)}

ChangeParams == {Params(Absent, 2, Absent, Absent, Absent)}

InsertSizes == {Absent, 1}

NewSizes == {1, 2}

WriteSizes == {1, 2}

PathNames ==
  {BuildPathname(id, BaseDirName, t, f) :
     id \in 1..(MaxObjId + 1), t \in TypeNames, f \in FileNames}

InsertPayloads ==
  {Payload(t, f, sz, Absent, Absent, sub) :
     t \in TypeNames, f \in FileNames, sz \in InsertSizes, sub \in BOOLEAN}

CanInsert == nextId <= MaxObjId

CanSubscribe == Len(m_subscribers) < MaxSubscribers

Next ==
  \/ \E t \in TypeNames, p \in DefineParams : OnDefineType(t, p, FALSE, TRUE)
  \/ \E t \in TypeNames, p \in ChangeParams : OnChangeType(t, p)
  \/ \E t \in TypeNames : OnDeleteType(t)
  \/ \E pl \in InsertPayloads :
       /\ CanInsert
       /\ pl.subscribe => CanSubscribe
       /\ OnInsertCacheObject(pl, TRUE)
  \/ \E p \in PathNames, n \in NewSizes : OnResizeCacheObject(p, n)
  \/ \E p \in PathNames : OnExpireCacheObject(p)
  \/ \E p \in PathNames : CanSubscribe /\ OnSubscribeCacheObject(p)
  \/ \E i \in DOMAIN m_subscribers : OnCancelSubscription(i)
  \/ \E p \in PathNames : OnTouchCacheObject(p)
  \/ WorkerHandler
  \/ CleanerHandler
  \/ \E id \in DOMAIN objects : ClientUnlink(id)

Spec == Init /\ [][Next]_vars

----------------------------------------------------------------------------
(* Properties of Spec *)

\* C1: after any sequence of operations, for every defined type usedBytes is
\* the sum of the sizes of its live objects and is at most the hiWatermark
\* the type has now.
C1_UsedBytesWithinHiWatermark ==
  \A t \in DOMAIN types :
     /\ types[t].usedBytes = SumSize(objects, ObjectsOfType(objects, t))
     /\ types[t].usedBytes <= types[t].hiWatermark

\* C2: no operation of the service (an insert or resize with its evictions,
\* ExpireCacheObject, DeleteType, the sweeps of WorkerHandler and
\* CleanerHandler) removes from memory, or from disk, an object that is
\* subscribed or write-open.  The cancellation of a subscription, which
\* releases the pin, and a file the client itself unlinks are not such
\* operations.
C2_PinnedObjectsStay ==
  [][(~ \E i \in DOMAIN m_subscribers : OnCancelSubscription(i)) =>
       \A id \in DOMAIN objects :
          ~IsEvictable(objects[id]) =>
             /\ id \in DOMAIN objects'
             /\ (/\ ObjectPath(objects[id], id) \in DOMAIN disk
                 /\ ~ClientUnlink(id))
                  => ObjectPath(objects[id], id) \in DOMAIN disk']_vars

\* C3: ExpireCacheObject on an in-use object replies FCInUseError and leaves
\* the object in place with pendingExpire raised; the cancellation that takes
\* the subscriberCount of such an object to 0 removes it from memory and disk.
C3_ExpireInUseIsDeferred ==
  /\ \A p \in PathNames :
       LET id  == GetObjectIdFromPath(p)
           out == ExpireCacheObject(p)
       IN  (/\ id \in DOMAIN objects
            /\ objects[id].type = p.type
            /\ ~IsEvictable(objects[id]))
             => /\ out.replies = <<Error("FCInUseError")>>
                /\ out.cache.objects = [objects EXCEPT ![id].pendingExpire = TRUE]
                /\ out.cache.disk = disk
  /\ \A i \in DOMAIN m_subscribers :
       LET id  == GetObjectIdFromPath(m_subscribers[i])
           out == CancelSubscription(i)
       IN  (/\ id \in DOMAIN objects
            /\ objects[id].pendingExpire
            /\ objects[id].subscriberCount = 1)
             => /\ id \notin DOMAIN out.cache.objects
                /\ ObjectPath(objects[id], id) \notin DOMAIN out.cache.disk

\* reached: a subscribed object whose expiry was deferred, its file on disk,
\* one cancellation away from removal
C3_DeferredAndSubscribed ==
  \E i \in DOMAIN m_subscribers :
     LET id == GetObjectIdFromPath(m_subscribers[i])
     IN  /\ id \in DOMAIN objects
         /\ objects[id].pendingExpire
         /\ objects[id].subscriberCount = 1
         /\ ObjectPath(objects[id], id) \in DOMAIN disk

HandlesFor(id) ==
  {i \in DOMAIN m_subscribers : GetObjectIdFromPath(m_subscribers[i]) = id}

\* C4: for every live object, subscriberCount is the number of Subscription
\* handles m_subscribers holds for it.
C4_CountIsNumberOfHandles ==
  \A id \in DOMAIN objects :
     objects[id].subscriberCount = Cardinality(HandlesFor(id))

\* reached: an object with two handles, one from the insert and one from a
\* later subscribe, next to a handle that was cancelled
C4_TwoHandlesOneObject ==
  \E id \in DOMAIN objects :
     /\ objects[id].subscriberCount = 2
     /\ Cardinality(HandlesFor(id)) = 2

EvictableBytes(typeName) ==
  SumSize(objects, {id \in ObjectsOfType(objects, typeName) :
                      IsEvictable(objects[id])})

RequestedSize(payload) ==
  IF payload.size = Absent THEN types[payload.typeName].size ELSE payload.size

LacksSpace(payload) ==
  /\ payload.typeName \in DOMAIN types
  /\ RequestedSize(payload) >
       (types[payload.typeName].hiWatermark - types[payload.typeName].usedBytes)
         + EvictableBytes(payload.typeName)

\* C5: an insert that needs more bytes than the free space of its type plus
\* the sizes of the type's evictable objects gets an error reply, and neither
\* the objects, nor the files, nor usedBytes change.
C5_NoSpaceNoChange ==
  \A pl \in InsertPayloads :
     LacksSpace(pl) =>
        LET out == InsertCacheObject(pl, TRUE)
        IN  /\ Len(out.replies) = 1
            /\ out.replies[1].err # "ok"
            /\ out.replies[1].path = NoPath
            /\ out.cache.objects = objects
            /\ out.cache.disk = disk
            /\ out.cache.types = types
            /\ out.subs = m_subscribers

\* reached: an insert that lacks space while the type holds an object
C5_InsertLacksSpace ==
  \E pl \in InsertPayloads :
     /\ LacksSpace(pl)
     /\ ObjectsOfType(objects, pl.typeName) # {}

\* C10: DeleteType on a type holding a non-evictable object replies
\* FCDeleteError and changes nothing.
C10_DeleteTypeBlocked ==
  \A t \in TypeNames :
     (\E id \in ObjectsOfType(objects, t) : ~IsEvictable(objects[id])) =>
        LET out == DeleteType(t)
        IN  /\ out.replies = <<Error("FCDeleteError")>>
            /\ out.cache = Engine
            /\ out.subs = m_subscribers

\* reached: a type holding an evictable and a non-evictable object
C10_TypeWithPinnedObject ==
  \E t \in DOMAIN types :
     /\ \E id \in ObjectsOfType(objects, t) : ~IsEvictable(objects[id])
     /\ \E id \in ObjectsOfType(objects, t) : IsEvictable(objects[id])

----------------------------------------------------------------------------
(* Specification: a full type, with costs, lifetimes and the clock *)

EvictParams == {Params(1, 2, 1, 0, 0)}

EvictPayloads ==
  {Payload(t, f, 1, cost, lifetime, TRUE) :
     t \in TypeNames, f \in FileNames, cost \in {Absent, 1},
     lifetime \in {Absent, 1}}

NextEvict ==
  \/ \E t \in TypeNames, p \in EvictParams : OnDefineType(t, p, FALSE, TRUE)
  \/ \E pl \in EvictPayloads :
       /\ nextId <= MaxObjId + 1
       /\ CanSubscribe
       /\ OnInsertCacheObject(pl, TRUE)
  \/ \E i \in DOMAIN m_subscribers : OnCancelSubscription(i)
  \/ \E p \in PathNames : OnTouchCacheObject(p)
  \/ \E p \in PathNames, n \in NewSizes : OnResizeCacheObject(p, n)
  \/ Tick

SpecEvict == Init /\ [][NextEvict]_vars

(* Properties of SpecEvict *)

EvictableOfType(typeName) ==
  {id \in ObjectsOfType(objects, typeName) : IsEvictable(objects[id])}

\* a comes before b in the order of eviction, in the state as it is
Precedes(a, b) ==
  LET pa == objects[a].pendingExpire
      pb == objects[b].pendingExpire
      sa == Score(objects[a], now)
      sb == Score(objects[b], now)
      la == objects[a].lastAccessAt
      lb == objects[b].lastAccessAt
  IN  \/ pa /\ ~pb
      \/ pa = pb /\ sa < sb
      \/ pa = pb /\ sa = sb /\ la < lb
      \/ pa = pb /\ sa = sb /\ la = lb /\ a < b

\* The objects `removed` are what an eviction of `need` bytes among `cands`
\* takes: evictable, ahead of every candidate left, and no more than needed.
IsEvictionOf(removed, cands, need) ==
  /\ removed \subseteq cands
  /\ \A v \in removed : \A w \in cands \ removed : Precedes(v, w)
  /\ removed # {} =>
       /\ need > 0
       /\ SumSize(objects, removed) >= need
       /\ \A v \in removed :
            (\A u \in removed \ {v} : Precedes(u, v))
              => SumSize(objects, removed \ {v}) < need

\* C6: what an insert or a resize removes to make room are evictable objects
\* of the type only, taken in the order pendingExpire first, then ascending
\* score, then ascending lastAccessAt, then ascending id, and no further than
\* the bytes needed: the victims are determined by the state and the request.
C6_VictimsInEvictionOrder ==
  /\ \A pl \in EvictPayloads :
       pl.typeName \in DOMAIN types =>
          LET out  == InsertCacheObject(pl, TRUE)
              ty   == types[pl.typeName]
              need == RequestedSize(pl) - (ty.hiWatermark - ty.usedBytes)
          IN  /\ IsEvictionOf(DOMAIN objects \ DOMAIN out.cache.objects,
                              EvictableOfType(pl.typeName), need)
              /\ (need > 0 /\ out.replies[1].err = "ok")
                   => DOMAIN objects \ DOMAIN out.cache.objects # {}
  /\ \A p \in PathNames, n \in NewSizes :
       LET id == GetObjectIdFromPath(p)
       IN  (id \in DOMAIN objects /\ objects[id].type = p.type) =>
              LET out  == ResizeCacheObject(p, n)
                  ty   == types[p.type]
                  need == (n - objects[id].size) - (ty.hiWatermark - ty.usedBytes)
              IN  /\ IsEvictionOf(DOMAIN objects \ DOMAIN out.cache.objects,
                                  EvictableOfType(p.type) \ {id}, need)
                  /\ (need > 0 /\ n > objects[id].size /\ out.replies[1].err = "ok")
                       => DOMAIN objects \ DOMAIN out.cache.objects # {}

\* reached: an insert that evicts the object with the lower score and leaves
\* an evictable object with a lower id and an older access in place
C6_LowerScoreGoesFirst ==
  \E pl \in EvictPayloads :
     /\ pl.typeName \in DOMAIN types
     /\ \E v \in DOMAIN objects, w \in EvictableOfType(pl.typeName) :
          /\ DOMAIN objects \ DOMAIN InsertCacheObject(pl, TRUE).cache.objects = {v}
          /\ w < v
          /\ objects[w].lastAccessAt < objects[v].lastAccessAt
          /\ Score(objects[v], now) < Score(objects[w], now)

----------------------------------------------------------------------------
(* Specification: the service is stopped and started again on its root *)

NextRestart ==
  \/ \E t \in TypeNames, p \in DefineParams : OnDefineType(t, p, FALSE, TRUE)
  \/ \E pl \in InsertPayloads :
       /\ CanInsert
       /\ pl.subscribe => CanSubscribe
       /\ OnInsertCacheObject(pl, TRUE)
  \/ \E i \in DOMAIN m_subscribers : OnCancelSubscription(i)
  \/ \E p \in PathNames : OnExpireCacheObject(p)
  \/ \E id \in DOMAIN objects, bytes \in WriteSizes : ClientWrite(id, bytes)
  \/ ServiceApp

SpecRestart == Init /\ [][NextRestart]_vars

(* Properties of SpecRestart *)

\* C8: the object ids InsertCacheObject hands out are positive and none is
\* handed out twice on one cache root, restarts included.
C8_IdsNeverRepeat ==
  [][\A pl \in InsertPayloads :
       OnInsertCacheObject(pl, TRUE) =>
          \A p \in PathsHandedOut(InsertCacheObject(pl, TRUE)) :
             /\ GetObjectIdFromPath(p) > 0
             /\ GetObjectIdFromPath(p) \notin issued]_vars

\* C9: a restart brings back every object that was not mid-write with the
\* id, the filename and the size it had, and GetCacheStatus counts the same
\* objects and bytes when no object was mid-write.
C9_RestartKeepsObjects ==
  [][ServiceApp =>
       /\ \A id \in DOMAIN objects :
            ~objects[id].writeOpen =>
               /\ id \in DOMAIN objects'
               /\ objects'[id].filename = objects[id].filename
               /\ objects'[id].size = objects[id].size
       /\ (\A id \in DOMAIN objects : ~objects[id].writeOpen) =>
               /\ DOMAIN objects' = DOMAIN objects
               /\ SumSize(objects', DOMAIN objects') = GetCacheSize(Engine)]_vars

----------------------------------------------------------------------------
(* Specification: end-to-end scenario 1 of spec.md 8, with touches *)

ScenarioParams == Params(4096, 8192, 1024, 0, 0)

ScenarioPayloads ==
  {Payload("T", f, sz, Absent, Absent, FALSE) :
     f \in FileNames, sz \in {Absent, 1024}}

ScenarioPaths ==
  {BuildPathname(id, BaseDirName, "T", f) :
     id \in 1..ScenarioInserts, f \in FileNames}

NextScenario1 ==
  \/ OnDefineType("T", ScenarioParams, FALSE, TRUE)
  \/ \E pl \in ScenarioPayloads :
       /\ nextId <= ScenarioInserts
       /\ OnInsertCacheObject(pl, TRUE)
  \/ \E p \in ScenarioPaths : OnTouchCacheObject(p)
  \/ Tick

SpecScenario1 == Init /\ [][NextScenario1]_vars

(* Properties of SpecScenario1 *)

FourInserted ==
  /\ "T" \in DOMAIN types
  /\ DOMAIN objects = 1..4
  /\ \A id \in 1..4 : objects[id].type = "T" /\ objects[id].size = 1024

\* the least recently touched object, the lowest id among equals
LeastRecentlyTouched ==
  CHOOSE v \in DOMAIN objects :
     \A w \in DOMAIN objects \ {v} :
        \/ objects[v].lastAccessAt < objects[w].lastAccessAt
        \/ objects[v].lastAccessAt = objects[w].lastAccessAt /\ v < w

\* C7 as the scenario states it: after four 1024-byte inserts into T (lo 4096,
\* hi 8192, size 1024) the fifth insert evicts the least recently touched
\* object, object 1 when none was touched.
C7_FifthInsertEvicts ==
  \A pl \in ScenarioPayloads :
     FourInserted =>
        LET out == InsertCacheObject(pl, TRUE)
        IN  /\ DOMAIN objects \ DOMAIN out.cache.objects = {LeastRecentlyTouched}
            /\ (\A id \in 1..4 : objects[id].lastAccessAt = objects[1].lastAccessAt)
                 => 1 \notin DOMAIN out.cache.objects

\* C7: after four 1024-byte inserts into T (lo 4096, hi 8192, size 1024) the
\* fifth insert is admitted without an eviction, 5120 bytes being within the
\* hiWatermark: it is given id 5, the four objects stay as they are and
\* usedBytes is 5120.
C7_FifthInsertAdmitted ==
  \A pl \in ScenarioPayloads :
     FourInserted =>
        LET out == InsertCacheObject(pl, TRUE)
        IN  /\ out.replies = <<[Success EXCEPT !.path =
                                  BuildPathname(5, BaseDirName, "T", pl.fileName)]>>
            /\ DOMAIN out.cache.objects = 1..5
            /\ \A id \in 1..4 : out.cache.objects[id] = objects[id]
            /\ out.cache.objects[5].size = 1024
            /\ out.cache.types["T"].usedBytes = 5120

\* reached: the five objects of the scenario, the first touched least recently
C7_FiveObjectsLive ==
  /\ DOMAIN objects = 1..5
  /\ \A id \in 1..5 : objects[id].size = 1024
  /\ \A id \in 2..5 : objects[1].lastAccessAt <= objects[id].lastAccessAt
  /\ types["T"].usedBytes = 5120

----------------------------------------------------------------------------
(* Specification: the types, their parameters and the limits of an insert *)

\* hiWatermark above, equal to and below loWatermark, and no watermark at all
TypeDefinePayloads ==
  {Params(1, 3, 2, 1, 1), Params(1, 4, 3, 0, 0), Params(2, 2, 1, 0, 0),
   Params(3, 1, 1, 0, 0), Params(Absent, Absent, 1, 0, 0)}

\* one field supplied at a time, some with the value 0
TypeChangePayloads ==
  {Params(Absent, 2, Absent, Absent, Absent),
   Params(3, Absent, Absent, Absent, Absent),
   Params(2, 1, Absent, Absent, Absent),
   Params(Absent, Absent, 0, Absent, Absent),
   Params(Absent, Absent, 1, 0, Absent),
   Params(Absent, Absent, Absent, Absent, 0)}

\* an insert of the default size, of hiWatermark bytes and of one byte more
TypeInsertPayloads(t) ==
  {Payload(t, f, sz, Absent, Absent, sub) :
     f \in FileNames,
     sz \in {Absent, DescribeType(Engine, t).hiWatermark,
             DescribeType(Engine, t).hiWatermark + 1},
     sub \in BOOLEAN}

NextTypes ==
  \/ \E t \in TypeNames, pl \in TypeDefinePayloads, d \in BOOLEAN :
       OnDefineType(t, pl, d, TRUE)
  \/ \E t \in TypeNames, pl \in TypeChangePayloads : OnChangeType(t, pl)
  \/ \E t \in TypeNames : OnDeleteType(t)
  \/ \E t \in TypeNames : \E pl \in TypeInsertPayloads(t) :
       /\ CanInsert
       /\ pl.subscribe => CanSubscribe
       /\ OnInsertCacheObject(pl, TRUE)
  \/ \E i \in DOMAIN m_subscribers : OnCancelSubscription(i)
  \/ \E p \in PathNames : OnExpireCacheObject(p)

SpecTypes == Init /\ [][NextTypes]_vars

(* Properties of SpecTypes *)

AllEvictable(t) ==
  \A id \in ObjectsOfType(objects, t) : IsEvictable(objects[id])

\* the type names a reply of GetCacheTypes lists
TypesListed(out) ==
  IF "types" \in DOMAIN out.replies[1] THEN out.replies[1].types ELSE {}

C12_DeleteTypeNeedsEmptyType ==
  \A t \in DOMAIN types :
     ObjectsOfType(objects, t) # {} =>
        DeleteType(t).replies = <<Error("FCDeleteError")>>

Supplied(v) == v # Absent

\* C13: DefineType with a hiWatermark less than or equal to the loWatermark
\* replies FCInvalidParams and defines nothing: the types, their parameters
\* and everything else stay as they are.
C13_BadWatermarksDefineNothing ==
  \A t \in TypeNames, pl \in TypeDefinePayloads, d \in BOOLEAN :
     (/\ Supplied(pl.hiWatermark)
      /\ Supplied(pl.loWatermark)
      /\ pl.hiWatermark <= pl.loWatermark)
       => LET out == DefineType(t, pl, d, TRUE)
          IN  /\ out.replies = <<Error("FCInvalidParams")>>
              /\ out.cache = Engine
              /\ out.subs = m_subscribers

\* reached: a request with hiWatermark = loWatermark for a name that is free,
\* after the name was defined and deleted once
C13_EqualWatermarksFreeName ==
  \E t \in TypeNames, pl \in TypeDefinePayloads :
     /\ Supplied(pl.hiWatermark)
     /\ pl.hiWatermark = pl.loWatermark
     /\ ~TypeExists(Engine, t)
     /\ issued # {}

\* C14 as stated: DefineType for a name already defined replies FCExistsError
\* whatever parameters are passed and leaves the type and its objects as
\* they are.
C14_RedefinitionIsExistsError ==
  \A t \in DOMAIN types, pl \in TypeDefinePayloads, d \in BOOLEAN :
     LET out == DefineType(t, pl, d, TRUE)
     IN  /\ out.replies = <<Error("FCExistsError")>>
         /\ out.cache = Engine

\* C14: DefineType for a name already defined, with a hiWatermark greater
\* than the loWatermark, replies FCExistsError whether the parameters and
\* the dirType flag are those of the type or not, and leaves the type, its
\* flag and its objects as they are; with a hiWatermark not greater than the
\* loWatermark the reply is FCInvalidParams, and nothing changes either.
C14_ValidRedefinitionIsExistsError ==
  \A t \in DOMAIN types, pl \in TypeDefinePayloads, d \in BOOLEAN :
     LET out == DefineType(t, pl, d, TRUE)
     IN  /\ out.replies =
               IF PayloadValue(pl.hiWatermark) > PayloadValue(pl.loWatermark)
               THEN <<Error("FCExistsError")>>
               ELSE <<Error("FCInvalidParams")>>
         /\ out.cache = Engine
         /\ out.subs = m_subscribers

\* reached: a defined type holding an object, and requests for its name with
\* its own parameters and with other valid parameters
C14_DefinedTypeWithObject ==
  \E t \in DOMAIN types :
     /\ ObjectsOfType(objects, t) # {}
     /\ \E pl \in TypeDefinePayloads :
          /\ ParamValues(pl) = DescribeType(Engine, t)
     /\ \E pl \in TypeDefinePayloads :
          /\ PayloadValue(pl.hiWatermark) > PayloadValue(pl.loWatermark)
          /\ ParamValues(pl) # DescribeType(Engine, t)

\* C15: for every defined type the hiWatermark is strictly greater than the
\* loWatermark in every reachable state, a ChangeType that supplies only one
\* of the two included.
C15_HiAboveLo ==
  \A t \in DOMAIN types : types[t].hiWatermark > types[t].loWatermark

ParamFields == {"loWatermark", "hiWatermark", "size", "cost", "lifetime"}

\* C16: after a successful ChangeType, DescribeType gives the value of the
\* request for every field the request supplies, a supplied 0 for size, cost
\* or lifetime included, and the previous value for every field it omits.
C16_ChangeTypeIsPartialUpdate ==
  \A t \in DOMAIN types, pl \in TypeChangePayloads :
     LET out == ChangeType(t, pl)
     IN  out.replies = <<Success>> =>
            \A f \in ParamFields :
               DescribeType(out.cache, t)[f] =
                 IF Supplied(pl[f]) THEN pl[f] ELSE DescribeType(Engine, t)[f]

----------------------------------------------------------------------------
(* Properties of ResizeCacheObject (SpecEvict) and ExpireCacheObject (Spec) *)

\* a path of the request that names an object of the cache, in its type
NamesObject(p) ==
  /\ GetObjectIdFromPath(p) \in DOMAIN objects
  /\ objects[GetObjectIdFromPath(p)].type = GetTypeNameFromPath(BaseDirName, p)

UsedBytes(c, t) == c.types[t].usedBytes

\* C17 as stated: ResizeCacheObject either replies success with newSize, the
\* size of the object becoming newSize and usedBytes changing by newSize
\* minus the old size, or replies FCResizeError and changes nothing.
C17_ResizeTwoOutcomes ==
  \A p \in PathNames, n \in NewSizes :
     NamesObject(p) =>
        LET id  == GetObjectIdFromPath(p)
            t   == objects[id].type
            out == ResizeCacheObject(p, n)
        IN  \/ /\ out.replies = <<[Success EXCEPT !.val = n]>>
               /\ out.cache.objects[id].size = n
               /\ UsedBytes(out.cache, t) = UsedBytes(Engine, t) + (n - objects[id].size)
            \/ /\ out.replies = <<Error("FCResizeError")>>
               /\ out.cache = Engine

\* C17: ResizeCacheObject either replies success with newSize, the size of
\* the object becoming newSize and usedBytes changing by newSize minus the
\* old size, less the sizes of the objects evicted to make room, which are
\* evictable objects of the type other than the object itself; or replies
\* FCResizeError, and the object, usedBytes and the objects of the type are
\* as before.
C17_ResizeTwoOutcomesWithEviction ==
  \A p \in PathNames, n \in NewSizes :
     NamesObject(p) =>
        LET id      == GetObjectIdFromPath(p)
            t       == objects[id].type
            out     == ResizeCacheObject(p, n)
            evicted == DOMAIN objects \ DOMAIN out.cache.objects
        IN  \/ /\ out.replies = <<[Success EXCEPT !.val = n]>>
               /\ id \in DOMAIN out.cache.objects
               /\ out.cache.objects[id] = [objects[id] EXCEPT !.size = n]
               /\ evicted \subseteq EvictableOfType(t) \ {id}
               /\ \A x \in DOMAIN out.cache.objects \ {id} :
                    out.cache.objects[x] = objects[x]
               /\ UsedBytes(out.cache, t) =
                    UsedBytes(Engine, t) + (n - objects[id].size)
                      - SumSize(objects, evicted)
            \/ /\ out.replies = <<Error("FCResizeError")>>
               /\ out.cache = Engine

\* reached: two objects, and a resize of one that succeeds by evicting the
\* other
C17_ResizeEvictsOrFails ==
  /\ \E p \in PathNames, n \in NewSizes :
       /\ NamesObject(p)
       /\ ResizeCacheObject(p, n).replies = <<[Success EXCEPT !.val = n]>>
       /\ DOMAIN objects \ DOMAIN ResizeCacheObject(p, n).cache.objects # {}
  /\ Cardinality(DOMAIN objects) = 2

\* reached: a resize that is refused, the other object of the type in use
C17_ResizeRefused ==
  \E p \in PathNames, n \in NewSizes :
     /\ NamesObject(p)
     /\ ResizeCacheObject(p, n).replies = <<Error("FCResizeError")>>

\* C18: ExpireCacheObject on an evictable object replies success and removes
\* it at once: its record and its file are gone, usedBytes of its type is
\* less by its size, and no other object changes.
C18_ExpireEvictableRemoves ==
  \A p \in PathNames :
     (NamesObject(p) /\ IsEvictable(objects[GetObjectIdFromPath(p)])) =>
        LET id  == GetObjectIdFromPath(p)
            t   == objects[id].type
            out == ExpireCacheObject(p)
        IN  /\ out.replies = <<Success>>
            /\ DOMAIN out.cache.objects = DOMAIN objects \ {id}
            /\ \A x \in DOMAIN out.cache.objects : out.cache.objects[x] = objects[x]
            /\ ObjectPath(objects[id], id) \notin DOMAIN out.cache.disk
            /\ UsedBytes(out.cache, t) = UsedBytes(Engine, t) - objects[id].size

\* reached: an evictable object with its file on disk, next to another object
C18_EvictableObjectOnDisk ==
  \E id \in DOMAIN objects :
     /\ IsEvictable(objects[id])
     /\ objects[id].size > 0
     /\ ObjectPath(objects[id], id) \in DOMAIN disk
     /\ DOMAIN objects # {id}

----------------------------------------------------------------------------
(* Properties of InsertCacheObject at the size boundaries (SpecTypes) *)

OneBlock == GetFilesystemFileSize(1)

\* the size an insert request resolves to: the payload's, else the type's
ResolvedSize(payload) ==
  IF payload.size = Absent THEN DescribeType(Engine, payload.typeName).size
  ELSE payload.size

BlockPayloads ==
  {Payload(t, f, sz, Absent, Absent, sub) :
     t \in TypeNames, f \in FileNames, sz \in {Absent} \cup (0 .. OneBlock + 1),
     sub \in BOOLEAN}

\* C19: for a dirType type, InsertCacheObject whose resolved size is at most
\* one filesystem block replies FCInvalidParams and inserts nothing; with a
\* resolved size of one block plus one byte the reply is not FCInvalidParams.
C19_DirTypeNeedsMoreThanOneBlock ==
  \A pl \in BlockPayloads, diskOk \in BOOLEAN :
     (TypeExists(Engine, pl.typeName) /\ isTypeDirType(Engine, pl.typeName)) =>
        LET out == InsertCacheObject(pl, diskOk)
        IN  /\ ResolvedSize(pl) <= OneBlock =>
                 /\ out.replies = <<Error("FCInvalidParams")>>
                 /\ out.cache = Engine
                 /\ out.subs = m_subscribers
            /\ ResolvedSize(pl) = OneBlock + 1 =>
                 out.replies # <<Error("FCInvalidParams")>>

\* reached: a dirType type whose default size is at most one block, holding an
\* object of one block plus one byte
C19_DirTypeHoldsObject ==
  \E t \in DOMAIN types :
     /\ isTypeDirType(Engine, t)
     /\ DescribeType(Engine, t).size <= OneBlock
     /\ \E id \in ObjectsOfType(objects, t) : objects[id].size = OneBlock + 1

EmptyType(t) == TypeExists(Engine, t) /\ ObjectsOfType(objects, t) = {}

BoundaryInsert(t, sz, sub) == InsertCacheObject(Payload(t, "foo.bar", sz, Absent, Absent, sub), TRUE)

\* the insert was admitted and removed no object
AdmittedWithoutEviction(out) ==
  /\ Len(out.replies) = 1
  /\ out.replies[1].err = "ok"
  /\ DOMAIN objects \subseteq DOMAIN out.cache.objects
  /\ Cardinality(DOMAIN out.cache.objects) = Cardinality(DOMAIN objects) + 1

\* the insert was refused and the type has no object
RefusedLeavingEmpty(out, t) ==
  /\ Len(out.replies) = 1
  /\ out.replies[1].err # "ok"
  /\ ObjectsOfType(out.cache.objects, t) = {}
  /\ UsedBytes(out.cache, t) = 0

\* C20 as stated: an insert of exactly hiWatermark bytes into an empty type
\* succeeds without eviction, and an insert of hiWatermark + 1 bytes into an
\* empty type fails and leaves the type empty.
C20_HiWatermarkBoundary ==
  \A t \in TypeNames, sub \in BOOLEAN :
     EmptyType(t) =>
        LET hi == DescribeType(Engine, t).hiWatermark
        IN  /\ AdmittedWithoutEviction(BoundaryInsert(t, hi, sub))
            /\ RefusedLeavingEmpty(BoundaryInsert(t, hi + 1, sub), t)

\* C20: an insert of exactly hiWatermark bytes into an empty type that is
\* not dirType, or whose hiWatermark exceeds one filesystem block, succeeds
\* without eviction; an insert of hiWatermark + 1 bytes into an empty type
\* fails and leaves the type empty.
C20_HiWatermarkBoundaryOfFileTypes ==
  \A t \in TypeNames, sub \in BOOLEAN :
     EmptyType(t) =>
        LET hi == DescribeType(Engine, t).hiWatermark
        IN  /\ (~isTypeDirType(Engine, t) \/ hi > OneBlock) =>
                 AdmittedWithoutEviction(BoundaryInsert(t, hi, sub))
            /\ RefusedLeavingEmpty(BoundaryInsert(t, hi + 1, sub), t)

\* reached: a type filled to its hiWatermark by its only object
C20_TypeFilledByOneObject ==
  \E t \in DOMAIN types :
     /\ Cardinality(ObjectsOfType(objects, t)) = 1
     /\ \A id \in ObjectsOfType(objects, t) : objects[id].size = types[t].hiWatermark
     /\ types[t].usedBytes = types[t].hiWatermark

----------------------------------------------------------------------------
(* Properties of TouchCacheObject (SpecEvict) *)

ObjectFields ==
  {"type", "filename", "size", "cost", "lifetime", "lastAccessAt", "writeOpen",
   "subscriberCount", "pendingExpire"}

\* C21: TouchCacheObject changes nothing but the lastAccessAt of its object,
\* which becomes the present time: the object's other attributes, the types
\* with their usedBytes, every other object, the files and the subscriber
\* list are as before, and a second touch at the same time changes nothing
\* more.
C21_TouchOnlyAdvancesLastAccess ==
  \A p \in PathNames :
     NamesObject(p) =>
        LET id    == GetObjectIdFromPath(p)
            out   == TouchCacheObject(p)
            again == CFileCacheSet_Touch(out.cache, id, now)
        IN  /\ out.replies = <<Success>>
            /\ DOMAIN out.cache.objects = DOMAIN objects
            /\ out.cache.objects[id].lastAccessAt = now
            /\ \A f \in ObjectFields \ {"lastAccessAt"} :
                 out.cache.objects[id][f] = objects[id][f]
            /\ \A x \in DOMAIN objects \ {id} : out.cache.objects[x] = objects[x]
            /\ out.cache.types = types
            /\ out.cache.disk = disk
            /\ out.cache.nextId = nextId
            /\ out.cache.typeDirs = typeDirs
            /\ out.subs = m_subscribers
            /\ again.ok
            /\ again.cache = out.cache

\* reached: the older of two objects has the later access time, having been
\* touched after the younger one was inserted
C21_TouchedLaterThanNeighbour ==
  \E id, x \in DOMAIN objects :
     /\ id < x
     /\ objects[id].lastAccessAt > objects[x].lastAccessAt
     /\ objects[id].lastAccessAt = now

----------------------------------------------------------------------------
(* Specification: subscriptions made, cancelled and outlived by an expiry *)

SubscribePayloads ==
  {Payload(t, f, 1, Absent, Absent, sub) :
     t \in TypeNames, f \in FileNames, sub \in BOOLEAN}

NextSubscribe ==
  \/ \E t \in TypeNames, p \in DefineParams : OnDefineType(t, p, FALSE, TRUE)
  \/ \E pl \in SubscribePayloads :
       /\ CanInsert
       /\ pl.subscribe => CanSubscribe
       /\ OnInsertCacheObject(pl, TRUE)
  \/ \E p \in PathNames : OnExpireCacheObject(p)
  \/ \E p \in PathNames : CanSubscribe /\ OnSubscribeCacheObject(p)
  \/ \E i \in DOMAIN m_subscribers : OnCancelSubscription(i)

SpecSubscribe == Init /\ [][NextSubscribe]_vars

(* Properties of SpecSubscribe *)

Subscribed(out) == out.replies = <<[Success EXCEPT !.subscribed = TRUE]>>

\* C22 as stated: after a successful SubscribeCacheObject, the cancellation
\* of the subscription it made gives the object the subscriberCount, and the
\* adapter the subscriber list, that they had before the subscribe.
C22_SubscribeCancelRestores ==
  [][\A p \in PathNames :
       (OnSubscribeCacheObject(p) /\ Subscribed(SubscribeCacheObject(p))) =>
          LET id == GetObjectIdFromPath(p)
          IN  /\ (CancelSubscription(Len(m_subscribers)).subs)' = m_subscribers
              /\ id \in DOMAIN (CancelSubscription(Len(m_subscribers)).cache.objects)'
              /\ (CancelSubscription(Len(m_subscribers)).cache.objects[id].subscriberCount)'
                   = objects[id].subscriberCount]_vars


\* C22: after a successful SubscribeCacheObject, the cancellation of the
\* subscription it made gives the adapter the subscriber list it had before
\* the subscribe, and the object the subscriberCount it had, except for an
\* object pending expiry that had no subscriber: the cancellation removes it.
C22_SubscribeCancelRestoresOrRemoves ==
  [][\A p \in PathNames :
       (OnSubscribeCacheObject(p) /\ Subscribed(SubscribeCacheObject(p))) =>
          LET id == GetObjectIdFromPath(p)
          IN  /\ (CancelSubscription(Len(m_subscribers)).subs)' = m_subscribers
              /\ IF objects[id].pendingExpire /\ objects[id].subscriberCount = 0
                   THEN id \notin DOMAIN (CancelSubscription(Len(m_subscribers)).cache.objects)'
                 ELSE /\ id \in DOMAIN (CancelSubscription(Len(m_subscribers)).cache.objects)'
                      /\ (CancelSubscription(Len(m_subscribers)).cache.objects[id].subscriberCount)'
                           = objects[id].subscriberCount]_vars

\* reached: an object with two subscriptions, the later one made by
\* SubscribeCacheObject
C22_SubscribedTwice ==
  \E id \in DOMAIN objects :
     /\ objects[id].subscriberCount = 2
     /\ Len(m_subscribers) = 2
     /\ GetObjectIdFromPath(m_subscribers[2]) = id

----------------------------------------------------------------------------
(* Specification: two types side by side, and requests whose path names no  *)
(* object of the cache                                                      *)

PairTypeNames == {"A", "B"}

PairParams == {Params(1, 3, 2, 0, 0)}

PairPayloads ==
  {Payload(t, f, Absent, Absent, Absent, sub) :
     t \in PairTypeNames, f \in FileNames, sub \in BOOLEAN}

\* paths of every id from 0 on, under the cache root and outside it, in either
\* type directory
PairPaths ==
  {BuildPathname(id, root, t, f) :
     id \in 0..(MaxObjId + 1), root \in {BaseDirName, OtherDirName},
     t \in PairTypeNames, f \in FileNames}

NextPair ==
  \/ \E t \in PairTypeNames, p \in PairParams : OnDefineType(t, p, FALSE, TRUE)
  \/ \E t \in PairTypeNames : OnDeleteType(t)
  \/ \E pl \in PairPayloads :
       /\ CanInsert
       /\ (pl.subscribe => CanSubscribe)
       /\ OnInsertCacheObject(pl, TRUE)
  \/ \E i \in DOMAIN m_subscribers : OnCancelSubscription(i)
  \/ \E p \in PairPaths : p.root = BaseDirName /\ OnExpireCacheObject(p)
  \/ \E p \in PairPaths :
       /\ p.root = BaseDirName
       /\ CanSubscribe
       /\ OnSubscribeCacheObject(p)

SpecPair == Init /\ [][NextPair]_vars

(* Properties of SpecPair *)

\* C23: a successful DefineType followed by DeleteType of the type, still
\* empty, leaves the cache as it was before the DefineType: the types with
\* their parameters, the objects, the files and the GetCacheStatus values;
\* DeleteType replies freedSpace 0.
C23_DefineDeleteRestores ==
  [][\A t \in PairTypeNames, p \in PairParams :
       (OnDefineType(t, p, FALSE, TRUE) /\
          DefineType(t, p, FALSE, TRUE).replies = <<Success>>) =>
          /\ (DeleteType(t).replies)' = <<Success>>
          /\ (DeleteType(t).cache)' = Engine
          /\ (DeleteType(t).subs)' = m_subscribers
          /\ (CFileCacheSet_GetCacheStatus(DeleteType(t).cache))' =
               GetCacheStatus.replies[1].status]_vars

\* reached: a type just defined and empty next to a type that holds an object
C23_EmptyTypeBesideUsedType ==
  \E t, u \in DOMAIN types :
     /\ ObjectsOfType(objects, t) = {}
     /\ ObjectsOfType(objects, u) # {}
     /\ nextId > 1

----------------------------------------------------------------------------
(* Specification: copies out of the cache *)

CopyParams == {Params(1, 3, 2, 0, 0)}

CopyPayloads == {Payload(t, f, 1, Absent, Absent, FALSE) : t \in TypeNames, f \in FileNames}

\* the paths of the objects, of an id never handed out, and of no id
CopyPaths ==
  {BuildPathname(id, BaseDirName, t, f) :
     id \in 0..(MaxObjId + 1), t \in TypeNames, f \in FileNames}

NewDirectory == "/media/internal/new"

\* "": the request names no destination
CopyDestinations == {"", NewDirectory} \cup RegularFiles

CopyFileNames == {"", "foo.bar"}

\* fileName, base-(1)ext, ..., the names the loop of CopyCacheObject builds
Candidate(fileName, n) == IF n = 0 THEN fileName ELSE NewFileName(fileName, n)

Candidates(fileName) ==
  {Candidate(fileName, n) : n \in 0..(s_maxUniqueFileIndex - 1)}

NextCopy ==
  \/ \E t \in TypeNames, p \in CopyParams : OnDefineType(t, p, FALSE, TRUE)
  \/ \E pl \in CopyPayloads :
       /\ CanInsert
       /\ OnInsertCacheObject(pl, TRUE)
  \/ \E p \in CopyPaths, d \in CopyDestinations, f \in CopyFileNames,
        allowed \in BOOLEAN, diskOk \in BOOLEAN :
       /\ Cardinality(copies) < MaxCopies
       /\ OnCopyCacheObject(p, d, f, allowed, diskOk)
  \/ \E c \in copies : CopyDone(c)
  \/ \E f \in Candidates(FileNameOf("foo.bar")) :
       DestinationWrite(s_defaultDownloadDir, f)

SpecCopy == Init /\ [][NextCopy]_vars

(* Properties of SpecCopy *)

\* C24: a CopyCacheObject request whose destination SBIsPathAllowed refuses
\* for writing and creating replies FCPermError, starts no copy and creates
\* no directory.
C24_DeniedDestinationNoCopy ==
  \A p \in CopyPaths, d \in CopyDestinations, f \in CopyFileNames,
     diskOk \in BOOLEAN :
     LET out == CopyCacheObject(p, d, f, FALSE, diskOk)
     IN  /\ out.replies = <<Error("FCPermError")>>
         /\ out.started = {}
         /\ out.dirs = destDirs

\* reached: a request that starts a copy when the destination is allowed, next
\* to a file an earlier copy left at the destination
C24_CopyWouldStart ==
  /\ \E p \in CopyPaths : CopyCacheObject(p, "", "", TRUE, TRUE).started # {}
  /\ destDirs[s_defaultDownloadDir] # {}
  /\ NewDirectory \in DOMAIN destDirs

\* a request for a copy of an object of the cache into a directory
CopyIntoDirectory(p, d, diskOk) ==
  /\ NamesObject(p)
  /\ d \notin RegularFiles
  /\ (d = "" \/ d \in DOMAIN destDirs \/ diskOk)

\* C25: CopyCacheObject targets the first of fileName, base-(1)ext,
\* base-(2)ext, ... that is not in the destination directory, never a file
\* that exists, and replies FCArgumentError for the lack of a unique name
\* only when every one of these names up to the bound exists.
C25_FirstFreeNameOrAllTaken ==
  \A p \in CopyPaths, d \in CopyDestinations, f \in CopyFileNames,
     diskOk \in BOOLEAN :
     CopyIntoDirectory(p, d, diskOk) =>
        LET out  == CopyCacheObject(p, d, f, TRUE, diskOk)
            dir  == IF d = "" THEN s_defaultDownloadDir ELSE d
            name == CopySource(p, f).fileName
        IN  /\ \A c \in out.started :
                 \E n \in 0..(s_maxUniqueFileIndex - 1) :
                    /\ c.fileName = Candidate(name, n)
                    /\ c.fileName \notin out.dirs[dir]
                    /\ \A m \in 0..(n - 1) : Candidate(name, m) \in out.dirs[dir]
            /\ out.started = {} =>
                 /\ out.replies = <<Error("FCArgumentError")>>
                 /\ Candidates(name) \subseteq out.dirs[dir]

----------------------------------------------------------------------------
(* Properties of requests that name no type or no object (SpecPair) *)

\* C26: InsertCacheObject naming a type that is not defined replies
\* FCExistsError and creates no object and no type.
C26_InsertIntoUndefinedType ==
  \A pl \in PairPayloads, diskOk \in BOOLEAN :
     ~TypeExists(Engine, pl.typeName) =>
        LET out == InsertCacheObject(pl, diskOk)
        IN  /\ out.replies = <<Error("FCExistsError")>>
            /\ out.cache = Engine
            /\ out.subs = m_subscribers

----------------------------------------------------------------------------
(* Specification: one run of the service with its two timers.  The glib    *)
(* main loop runs a timer that is armed: weak fairness of both callbacks.  *)
(* TimerCallback is enabled in every state, its timer being armed for      *)
(* good, so its weak fairness is written as the equivalent                 *)
(* []<><<TimerCallback>>_vars.                                             *)

TimerPayloads ==
  {Payload(t, f, 1, Absent, Absent, TRUE) : t \in TypeNames, f \in FileNames}

NextTimers ==
  \/ \E t \in TypeNames, p \in DefineParams : OnDefineType(t, p, FALSE, TRUE)
  \/ \E pl \in TimerPayloads :
       /\ CanInsert
       /\ CanSubscribe
       /\ OnInsertCacheObject(pl, TRUE)
  \/ \E i \in DOMAIN m_subscribers : OnCancelSubscription(i)
  \/ \E p \in PathNames : OnExpireCacheObject(p)
  \/ \E id \in DOMAIN objects : ClientUnlink(id)
  \/ TimerCallback
  \/ CleanerCallback

SpecTimers ==
  /\ Init /\ [][NextTimers]_vars
  /\ []<><<TimerCallback>>_vars
  /\ WF_vars(CleanerCallback)

(* Properties of SpecTimers *)

WorkerRepeats == ([]<>(timerRuns.worker = 0)) /\ ([]<>(timerRuns.worker = 1))

\* C27 as stated: both tasks repeat; WorkerHandler and CleanerHandler each
\* fire again after every firing, so each runs infinitely often.
C27_BothTasksRepeat ==
  /\ WorkerRepeats
  /\ ([]<>(timerRuns.cleaner = 0)) /\ ([]<>(timerRuns.cleaner = 1))

\* C27: WorkerHandler repeats, every firing being followed by a later one, so
\* CleanupOrphans runs infinitely often; CleanerHandler fires once in a run of
\* the service and its timer is never armed again.
C27_WorkerRepeatsCleanerOnce ==
  /\ WorkerRepeats
  /\ <>[](~cleanerTimer /\ timerRuns.cleaner = 1)
  /\ [](cleanerTimer => timerRuns.cleaner = 0)

\* reached: both callbacks have fired, the worker most recently an odd number
\* of times, with an object in the cache
C27_BothTimersFired ==
  /\ timerRuns = [worker |-> 1, cleaner |-> 1]
  /\ ~cleanerTimer
  /\ objects # <<>>


\* the path decodes to no id, or its type name is not the type of its id
NamesNoObjectOfItsType(p) ==
  \/ GetObjectIdFromPath(p) = 0
  \/ GetTypeNameFromPath(BaseDirName, p) #
       GetTypeForObjectId(Engine, GetObjectIdFromPath(p))

Rejected(out) ==
  /\ out.replies = <<Error("FCExistsError")>>
  /\ out.cache = Engine
  /\ out.subs = m_subscribers

\* C28: ResizeCacheObject, TouchCacheObject and SubscribeCacheObject on a path
\* whose id is 0, or whose type name differs from the type recorded for the
\* id, reply FCExistsError and change neither the cache nor the subscriber
\* list.
C28_UnknownPathIsExistsError ==
  \A p \in PairPaths :
     NamesNoObjectOfItsType(p) =>
        /\ \A n \in NewSizes : Rejected(ResizeCacheObject(p, n))
        /\ Rejected(TouchCacheObject(p))
        /\ Rejected(SubscribeCacheObject(p))

\* reached: a subscribed object of one type and, the other type being
\* defined too, the path of its id in the other type's directory
C28_IdUnderOtherType ==
  \E id \in DOMAIN objects, t \in DOMAIN types :
     /\ objects[id].type # t
     /\ objects[id].subscriberCount > 0
     /\ BuildPathname(id, BaseDirName, t, objects[id].filename) \in PairPaths
     /\ NamesNoObjectOfItsType(BuildPathname(id, BaseDirName, t, objects[id].filename))


\* C29: ExpireCacheObject replies FCInUseError only for an object that is in
\* the cache and is not evictable; a path that names no object of the cache
\* never yields FCInUseError.
C29_InUseErrorOnlyForPinnedObject ==
  \A p \in PairPaths :
     ExpireCacheObject(p).replies = <<Error("FCInUseError")>> =>
        /\ GetObjectIdFromPath(p) \in DOMAIN objects
        /\ ~IsEvictable(objects[GetObjectIdFromPath(p)])


\* C30: GetCacheObjectSize and GetCacheObjectFilename on a path whose id is 0
\* or is not in the cache reply FCExistsError; on the path of an object of
\* the cache they reply success with its size, respectively its filename.
C30_QueriesOfUnknownObject ==
  \A p \in PairPaths :
     LET id == GetObjectIdFromPath(p)
     IN  IF id \in DOMAIN objects
           THEN /\ GetCacheObjectSize(p).replies =
                     <<[err |-> "ok", size |-> objects[id].size]>>
                /\ GetCacheObjectFilename(p).replies =
                     <<[err |-> "ok", fileName |-> objects[id].filename]>>
         ELSE /\ GetCacheObjectSize(p).replies = <<Error("FCExistsError")>>
              /\ GetCacheObjectFilename(p).replies = <<Error("FCExistsError")>>

----------------------------------------------------------------------------
(* The life of an object within one run of the service (Spec) *)

\* the ids that were given to an object and whose object is gone
Removed == (1..(nextId - 1)) \ DOMAIN objects

\* C31: pendingExpire is monotone.  Whatever the service does next (a
\* subscribe, a touch, a resize, any other request, a sweep), an object whose
\* pendingExpire is set either still has it set or is removed; and an object
\* that is removed is never live again.
C31_PendingExpireIsMonotone ==
  [][/\ \A id \in DOMAIN objects :
          (objects[id].pendingExpire /\ id \in DOMAIN objects')
             => objects'[id].pendingExpire
     /\ \A id \in Removed : id \notin DOMAIN objects']_vars

\* reached: an object pending expiry that was subscribed to again, after
\* another object was removed
C31_PendingWithTwoSubscribers ==
  /\ Removed # {}
  /\ \E id \in DOMAIN objects :
        /\ objects[id].pendingExpire
        /\ objects[id].subscriberCount = 2

\* the live objects whose encoded path is not on disk
Orphans(c) ==
  {id \in DOMAIN c.objects : ObjectPath(c.objects[id], id) \notin DOMAIN c.disk}

C33_PendingExpireOnlyOnPinned ==
  \A id \in DOMAIN objects :
     objects[id].pendingExpire => ~IsEvictable(objects[id])

\* reached: an object pending expiry that the cancellation of its last
\* subscription will remove, after another object was removed
C33_PendingOnLastSubscription ==
  /\ Removed # {}
  /\ \E i \in DOMAIN m_subscribers :
        LET id == GetObjectIdFromPath(m_subscribers[i])
        IN  /\ id \in DOMAIN objects
            /\ objects[id].pendingExpire
            /\ objects[id].subscriberCount = 1
            /\ id \notin DOMAIN CancelSubscription(i).cache.objects

----------------------------------------------------------------------------
(* Properties of SpecPair: the replies of InsertCacheObject *)

\* the replies of a handler that are success replies
SuccessReplies(out) ==
  {out.replies[i] : i \in {j \in DOMAIN out.replies : out.replies[j].err = "ok"}}

\* C34: every success reply of InsertCacheObject, with subscribe = true and
\* without, carries a non-empty pathName that decodes to the id of the object
\* the insert created and lies under the requested type; and the reply
\* carries subscribed = true exactly when a Subscription for the new object was
\* pushed on m_subscribers.
C34_InsertReplyNamesNewObject ==
  \A pl \in PairPayloads, diskOk \in BOOLEAN :
     LET out == InsertCacheObject(pl, diskOk)
     IN  \A r \in SuccessReplies(out) :
            LET id == GetObjectIdFromPath(r.path)
            IN  /\ r.path # NoPath
                /\ id > 0
                /\ id \notin DOMAIN objects
                /\ DOMAIN out.cache.objects \ DOMAIN objects = {id}
                /\ out.cache.objects[id].type = pl.typeName
                /\ GetTypeNameFromPath(BaseDirName, r.path) = pl.typeName
                /\ r.path = BuildPathname(id, BaseDirName, pl.typeName, pl.fileName)
                /\ r.subscribed <=> out.subs = Append(m_subscribers, r.path)
                /\ ~r.subscribed <=> out.subs = m_subscribers
                /\ out.cache.objects[id].subscriberCount =
                     (IF r.subscribed THEN 1 ELSE 0)

\* reached: beside an object of the other type and its Subscription, an insert
\* with subscribe = true is answered with success and subscribed = true
C34_SubscribedInsertBesideOtherType ==
  \E pl \in PairPayloads :
     /\ pl.subscribe
     /\ m_subscribers # <<>>
     /\ \E id \in DOMAIN objects : objects[id].type # pl.typeName
     /\ \E r \in SuccessReplies(InsertCacheObject(pl, TRUE)) : r.subscribed

----------------------------------------------------------------------------
(* Specification: the idle timeout of the service *)

\* inserts of the default size of the type and of size 0
IdlePayloads ==
  {Payload(t, f, sz, Absent, Absent, sub) :
     t \in TypeNames, f \in FileNames, sz \in {Absent, 0}, sub \in BOOLEAN}

NextIdle ==
  \/ \E t \in TypeNames, p \in DefineParams :
       running /\ OnDefineType(t, p, FALSE, TRUE)
  \/ \E pl \in IdlePayloads :
       /\ running
       /\ CanInsert
       /\ pl.subscribe => CanSubscribe
       /\ OnInsertCacheObject(pl, TRUE)
  \/ \E i \in DOMAIN m_subscribers : running /\ OnCancelSubscription(i)
  \/ \E p \in PathNames : running /\ OnExpireCacheObject(p)
  \/ handle_idle_timeout_cb
  \/ ServiceApp

SpecIdle == Init /\ [][NextIdle]_vars

(* Properties of SpecIdle *)

\* C35: the idle-timeout handler shuts the service down only when
\* the cache size is 0 and there is no subscriber, and changes nothing when
\* any object is cached or any subscription is alive.
C35_IdleShutdownOnlyWhenNothingCached ==
  [][handle_idle_timeout_cb =>
       /\ ~running' => (GetCacheSize(Engine) = 0 /\ m_subscribers = <<>>)
       /\ (DOMAIN objects # {} \/ m_subscribers # <<>>) => UNCHANGED vars]_vars

----------------------------------------------------------------------------
(* Specification: requests of every kind, copies included *)

NextReplies ==
  \/ \E t \in TypeNames, p \in DefineParams : OnDefineType(t, p, FALSE, TRUE)
  \/ \E t \in TypeNames : OnDeleteType(t)
  \/ \E pl \in SubscribePayloads :
       /\ CanInsert
       /\ pl.subscribe => CanSubscribe
       /\ OnInsertCacheObject(pl, TRUE)
  \/ \E p \in PathNames : OnExpireCacheObject(p)
  \/ \E i \in DOMAIN m_subscribers : OnCancelSubscription(i)
  \/ \E p \in CopyPaths, allowed \in BOOLEAN :
       /\ Cardinality(copies) < MaxCopies
       /\ OnCopyCacheObject(p, "", "", allowed, TRUE)
  \/ \E c \in copies : CopyDone(c)

SpecReplies == Init /\ [][NextReplies]_vars

(* Properties of SpecReplies *)

\* a handler sent one reply, a success or an error
OneReply(out) ==
  /\ Len(out.replies) = 1
  /\ out.replies[1].err # ""

\* C36: every request handled by DefineType, ChangeType, DeleteType,
\* InsertCacheObject, ResizeCacheObject, ExpireCacheObject,
\* SubscribeCacheObject and TouchCacheObject gets exactly one reply, a
\* success or an error; every CopyCacheObject request gets either exactly one
\* error reply or exactly one copier started, never both.
C36_OneReplyPerRequest ==
  /\ \A t \in PairTypeNames, pl \in TypeDefinePayloads, d \in BOOLEAN,
        diskOk \in BOOLEAN : OneReply(DefineType(t, pl, d, diskOk))
  /\ \A t \in PairTypeNames, pl \in TypeChangePayloads : OneReply(ChangeType(t, pl))
  /\ \A t \in PairTypeNames : OneReply(DeleteType(t))
  /\ \A pl \in InsertPayloads \cup PairPayloads \cup IdlePayloads,
        diskOk \in BOOLEAN : OneReply(InsertCacheObject(pl, diskOk))
  /\ \A p \in PairPaths, n \in NewSizes \cup {0, 3} :
        OneReply(ResizeCacheObject(p, n))
  /\ \A p \in PairPaths :
        /\ OneReply(ExpireCacheObject(p))
        /\ OneReply(SubscribeCacheObject(p))
        /\ OneReply(TouchCacheObject(p))
  /\ \A p \in CopyPaths, d \in CopyDestinations, f \in CopyFileNames,
        allowed \in BOOLEAN, diskOk \in BOOLEAN :
        LET out == CopyCacheObject(p, d, f, allowed, diskOk)
        IN  \/ /\ OneReply(out)
               /\ out.replies[1].err # "ok"
               /\ out.started = {}
            \/ /\ out.replies = <<>>
               /\ Cardinality(out.started) = 1

\* reached: a copier is running; an expiry would be answered with
\* FCInUseError, a resize with FCResizeError, another one with success, and a
\* copy with the error for the lack of a unique name
C36_RequestsOfEveryOutcome ==
  /\ copies # {}
  /\ \E p \in PathNames :
        /\ ExpireCacheObject(p).replies = <<Error("FCInUseError")>>
        /\ ResizeCacheObject(p, 3).replies = <<Error("FCResizeError")>>
  /\ \E p \in PathNames : ResizeCacheObject(p, 2).replies[1].err = "ok"
  /\ \E p \in CopyPaths : CopyCacheObject(p, "", "", TRUE, TRUE).started = {}

----------------------------------------------------------------------------
(* Properties of SpecPair: one type beside the other *)

\* what the cache holds of a type: its parameters and usedBytes, its objects
\* with their attributes, and their entries on disk
TypeView(c, t) ==
  [type    |-> IF t \in DOMAIN c.types THEN <<c.types[t]>> ELSE <<>>,
   objects |-> [id \in ObjectsOfType(c.objects, t) |-> c.objects[id]],
   disk    |-> [p \in {q \in DOMAIN c.disk : q.type = t} |-> c.disk[p]],
   dir     |-> t \in c.typeDirs]

\* a request for type t left every other type as it was
OtherTypesUntouched(out, t) ==
  \A b \in PairTypeNames \ {t} : TypeView(out.cache, b) = TypeView(Engine, b)

\* C37: an InsertCacheObject, ResizeCacheObject, ExpireCacheObject, ChangeType
\* or DeleteType aimed at one type, with any eviction it triggers, leaves the
\* parameters, the objects, their attributes and the usedBytes of every other
\* type unchanged.
C37_OtherTypesUntouched ==
  \A t \in PairTypeNames :
     /\ \A pl \in PairPayloads \cup IdlePayloads, diskOk \in BOOLEAN :
           pl.typeName = t => OtherTypesUntouched(InsertCacheObject(pl, diskOk), t)
     /\ \A pl \in TypeChangePayloads : OtherTypesUntouched(ChangeType(t, pl), t)
     /\ OtherTypesUntouched(DeleteType(t), t)
     /\ \A p \in PairPaths :
           GetTypeNameFromPath(BaseDirName, p) = t =>
              /\ OtherTypesUntouched(ExpireCacheObject(p), t)
              /\ \A n \in NewSizes \cup {0, 3} :
                    OtherTypesUntouched(ResizeCacheObject(p, n), t)

\* reached: an insert into one type evicts an object of that type while the
\* other type holds an evictable object
C37_EvictionBesideEvictableObject ==
  \E pl \in PairPayloads :
     LET out == InsertCacheObject(pl, TRUE)
     IN  /\ \E id \in ObjectsOfType(objects, pl.typeName) :
              id \notin DOMAIN out.cache.objects
         /\ SuccessReplies(out) # {}
         /\ \E id \in DOMAIN objects :
              /\ objects[id].type # pl.typeName
              /\ IsEvictable(objects[id])

====
